---- MODULE Spec2Model ----
(***************************************************************************)
(* Wind-field sampling, streamline integration, glyph / pick-target build  *)
(* and the click-driven selection controller of the interactive wind       *)
(* component (web/src/components/interactiveWind.js), with the parts of    *)
(* globe.js and main.js it talks to.                                       *)
(*                                                                         *)
(* Numbers.  JavaScript doubles are modelled in fixed point:               *)
(*   - angles (lat, lon) in centidegrees        (DegUnit  units = 1 deg)   *)
(*   - wind components and speeds in 0.1 m/s    (WindUnit units = 1 m/s)   *)
(*   - lengths in thousandths of a world unit   (LenUnit  units = 1)       *)
(* A non-finite number (NaN, null, undefined) is the value NaN below.      *)
(* A thrown exception ends the handler it is thrown in: the assignments    *)
(* made before the throw stay, the statements after it do not run.         *)
(***************************************************************************)
EXTENDS Integers, Sequences, FiniteSets, TLC

VARIABLES
    data,        \* the WindGrid handed to the component: [lat, lon, u, v]
    query,       \* sampler run: the (lat, lon) last queried, or "none"
    sampled,     \* sampler run: what sampleBilinear returned for query
    dIn,         \* densifier run: the arguments [points, speeds, maxAngle]
    dOut,        \* densifier run: [done, densePoints, denseSpeeds]
    opts,        \* the component's options (const after construction)
    rng,         \* the values Math.random() returns, in order, cyclically
    built,       \* init() has run its glyph and pick-target build
    glyphs,      \* the line glyphs init() emitted (positions / colors)
    candidateWindPoints,  \* init()'s pick-target candidates, in order
    windPoints,  \* the retained pick targets (one hitbox sphere each)
    seed,        \* integrator run: the seed generateStreamline was given
    slRaw,       \* integrator run: the points the loop accepted
    slOut,       \* integrator run: what generateStreamline returned
    st,          \* the component's closure variables, the globe's autoRotate,
                 \* the info panel and the listeners (see InitialState)
    main,        \* main.js: the registry entry of interactiveWind, the
                 \* current level, the loads in flight, the level control
    prev,        \* glyph runs: the pick targets of the build before this one
    pRun,        \* percentile run: [done, arr, p, value, arrAfter]
    reg,         \* registry run: main.js's components Map and its instances
    client,      \* tile run: a StreamClient's cache, inflight map and calls
    wv           \* wind-vector run: the streaming component's frame state

samplerVars == <<query, sampled>>
densifyVars == <<dIn, dOut>>
buildVars == <<built, glyphs, candidateWindPoints, windPoints>>
streamVars == <<seed, slRaw, slOut>>

restVars == <<reg, client, wv>>
vars == <<data, query, sampled, dIn, dOut, opts, rng,
          built, glyphs, candidateWindPoints, windPoints,
          seed, slRaw, slOut, st, main, prev, pRun, restVars>>

----------------------------------------------------------------------------
(* Units of the fixed-point representation.                                *)

DegUnit == 10 * 10
WindUnit == 2 * 5
LenUnit == 10 * 100

\* A non-finite number: a value no finite quantity of the model takes.
NaN == 0 - 10 * 1000 * 1000

\* Number.isFinite(x)
IsFinite(x) == x # NaN

\* What sampleBilinear returns: null, or the object { u, v }.
Null == [ isNull |-> TRUE, u |-> NaN, v |-> NaN ]
UV(u, v) == [ isNull |-> FALSE, u |-> u, v |-> v ]

Min2(a, b) == IF a < b THEN a ELSE b
Max2(a, b) == IF a > b THEN a ELSE b

\* function clamp(x, a, b) { return Math.max(a, Math.min(b, x)); }
clamp(x, a, b) == Max2(a, Min2(b, x))

\* Mutation of lerp: the end points are taken the other way round.
lerpSwapped(a, b, num, den) ==
    IF ~IsFinite(a) \/ ~IsFinite(b) THEN NaN
    ELSE b + ((a - b) * num) \div den

\* lerp(a, b, t) = a + (b - a) * t with t = num / den, 0 <= num <= den, in
\* fixed point (the quotient is rounded down).  tx, ty of sampleBilinear are
\* never formed on their own: the division is done last, on the product.
\* NaN in, NaN out, as in floating-point arithmetic.
lerp(a, b, num, den) ==
    IF ~IsFinite(a) \/ ~IsFinite(b) THEN NaN
    ELSE a + ((b - a) * num) \div den

----------------------------------------------------------------------------
(* Grid Sampler: sampleBilinear(lat, lon, lats, lons, U, V).               *)

\* U[j]?.[i]: undefined (non-finite) when row j or column i is absent.
Cell(M, j, i) ==
    IF j \in DOMAIN M /\ i \in DOMAIN M[j] THEN M[j][i] ELSE NaN

\* let i1 = 1; while (i1 < nLon && lons[i1] < qLon) i1++;   (1-based here:
\* the scan starts at the second element and may run one past the end)
RECURSIVE ScanUp(_, _, _)
ScanUp(axis, q, k) ==
    IF k <= Len(axis) /\ axis[k] < q THEN ScanUp(axis, q, k + 1) ELSE k

\* while (j1 < nLat && lats[j1] > qLat) j1++;   (descending latitudes)
RECURSIVE ScanDown(_, _, _)
ScanDown(axis, q, k) ==
    IF k <= Len(axis) /\ axis[k] > q THEN ScanDown(axis, q, k + 1) ELSE k

\* The corner values of the cell sampleBilinear selects, with the weights
\* tx = txNum / txDen and ty = tyNum / tyDen (a zero-width cell gives t = 0).
SelectCell(lat, lon, lats, lons, U, V) ==
    LET nLat == Len(lats)
        nLon == Len(lons)
        lon0 == lons[1]
        lonN == lons[nLon]
        gridIs360 == lon0 >= 0 /\ lonN > 180 * DegUnit
        qLonS == IF gridIs360 /\ lon < 0 THEN lon + 360 * DegUnit ELSE lon
        qLon == clamp(qLonS, Min2(lon0, lonN), Max2(lon0, lonN))
        latInc == lats[2] > lats[1]
        minLat == IF latInc THEN lats[1] ELSE lats[nLat]
        maxLat == IF latInc THEN lats[nLat] ELSE lats[1]
        qLat == clamp(lat, minLat, maxLat)
        i1 == clamp(ScanUp(lons, qLon, 2), 2, nLon)
        i0 == i1 - 1
        j1 == clamp(IF latInc THEN ScanUp(lats, qLat, 2)
                              ELSE ScanDown(lats, qLat, 2), 2, nLat)
        j0 == j1 - 1
    IN  [ i0 |-> i0, i1 |-> i1, j0 |-> j0, j1 |-> j1,
          txNum |-> IF lons[i1] = lons[i0] THEN 0 ELSE qLon - lons[i0],
          txDen |-> IF lons[i1] = lons[i0] THEN 1 ELSE lons[i1] - lons[i0],
          tyNum |-> IF lats[j1] = lats[j0] THEN 0 ELSE qLat - lats[j0],
          tyDen |-> IF lats[j1] = lats[j0] THEN 1 ELSE lats[j1] - lats[j0],
          u00 |-> Cell(U, j0, i0), u10 |-> Cell(U, j0, i1),
          u01 |-> Cell(U, j1, i0), u11 |-> Cell(U, j1, i1),
          v00 |-> Cell(V, j0, i0), v10 |-> Cell(V, j0, i1),
          v01 |-> Cell(V, j1, i0), v11 |-> Cell(V, j1, i1) ]

\* Mutation of CornersFinite: only the corners that carry weight are tested.
CornersFiniteWeighted(c) ==
    LET wx0 == c.txNum # c.txDen
        wx1 == c.txNum # 0
        wy0 == c.tyNum # c.tyDen
        wy1 == c.tyNum # 0
    IN  /\ (wx0 /\ wy0) => (IsFinite(c.u00) /\ IsFinite(c.v00))
        /\ (wx1 /\ wy0) => (IsFinite(c.u10) /\ IsFinite(c.v10))
        /\ (wx0 /\ wy1) => (IsFinite(c.u01) /\ IsFinite(c.v01))
        /\ (wx1 /\ wy1) => (IsFinite(c.u11) /\ IsFinite(c.v11))

\* [u00, u10, u01, u11, v00, v10, v01, v11].every(Number.isFinite)
CornersFinite(c) ==
    /\ IsFinite(c.u00) /\ IsFinite(c.u10) /\ IsFinite(c.u01) /\ IsFinite(c.u11)
    /\ IsFinite(c.v00) /\ IsFinite(c.v10) /\ IsFinite(c.v01) /\ IsFinite(c.v11)

\* The two lerps along longitude, then the lerp along latitude.
Bilinear(c) ==
    LET u0 == lerp(c.u00, c.u10, c.txNum, c.txDen)
        u1 == lerp(c.u01, c.u11, c.txNum, c.txDen)
        v0 == lerp(c.v00, c.v10, c.txNum, c.txDen)
        v1 == lerp(c.v01, c.v11, c.txNum, c.txDen)
    IN  UV(lerp(u0, u1, c.tyNum, c.tyDen), lerp(v0, v1, c.tyNum, c.tyDen))

\* Mutation of sampleBilinear: a missing corner enters the arithmetic as 0.
ZeroFill(x) == IF IsFinite(x) THEN x ELSE 0
sampleBilinearZeroFill(lat, lon, lats, lons, U, V) ==
    IF Len(lats) < 2 \/ Len(lons) < 2 THEN Null
    ELSE LET c == SelectCell(lat, lon, lats, lons, U, V)
         IN  Bilinear([ c EXCEPT !.u00 = ZeroFill(@), !.u10 = ZeroFill(@),
                                 !.u01 = ZeroFill(@), !.u11 = ZeroFill(@),
                                 !.v00 = ZeroFill(@), !.v10 = ZeroFill(@),
                                 !.v01 = ZeroFill(@), !.v11 = ZeroFill(@) ])

sampleBilinear(lat, lon, lats, lons, U, V) ==
    IF Len(lats) < 2 \/ Len(lons) < 2 THEN Null
    ELSE LET c == SelectCell(lat, lon, lats, lons, U, V)
         IN  IF ~CornersFinite(c) THEN Null ELSE Bilinear(c)

----------------------------------------------------------------------------
(* Vectors.  Every THREE.Vector3 the component handles is either a point   *)
(* of the sphere, latLonToVec3(lat, lon, r), or a point of the chord       *)
(* between two of them, a.clone().lerp(b, num / den).  Both are kept in    *)
(* that form: [a, b, num, den] with a, b = <<lat, lon>>.                   *)

\* latLonToVec3(lat, lon, globeRadius + lift)
latLonToVec3(lat, lon) ==
    [ a |-> <<lat, lon>>, b |-> <<lat, lon>>, num |-> 0, den |-> 1 ]

\* a.clone().lerp(b, j / steps) for sphere points a, b:
\* x += (b.x - x) * alpha leaves a as it is when alpha = 0.
Lerp3(a, b, j, steps) ==
    IF j = 0 \/ a.a = b.a THEN a
    ELSE [ a |-> a.a, b |-> b.a, num |-> j, den |-> steps ]

\* floor(sqrt(n)) for n >= 0, by bisection on [lo, hi].
RECURSIVE IsqrtIn(_, _, _)
IsqrtIn(n, lo, hi) ==
    IF lo >= hi THEN lo
    ELSE LET mid == (lo + hi + 1) \div 2
         IN  IF mid * mid <= n THEN IsqrtIn(n, mid, hi)
                               ELSE IsqrtIn(n, lo, mid - 1)
Isqrt(n) == IsqrtIn(n, 0, Min2(n, 46340))

\* Math.hypot(u, v)
hypot(u, v) == Isqrt(u * u + v * v)

Abs(x) == IF x < 0 THEN 0 - x ELSE x

\* 1000 * cos of 0, 15, ..., 90 degrees.
CosTable == <<1000, 966, 866, 707, 500, 259, 0>>

\* 1000 * cos(x) for x in centidegrees, linear between the table's entries.
CosMilli(x) ==
    LET r == Abs(x) % (360 * DegUnit)
        f == IF r > 180 * DegUnit THEN 360 * DegUnit - r ELSE r
        q == IF f > 90 * DegUnit THEN 180 * DegUnit - f ELSE f
        k == q \div (15 * DegUnit)
        rest == q % (15 * DegUnit)
        c == IF rest = 0 THEN CosTable[k + 1]
             ELSE lerp(CosTable[k + 1], CosTable[k + 2], rest, 15 * DegUnit)
    IN  IF f > 90 * DegUnit THEN 0 - c ELSE c

SinMilli(x) == CosMilli(x - 90 * DegUnit)

\* The difference of two longitudes, brought into [-180, 180] degrees.
LonDiff(l1, l2) ==
    LET d == (l2 - l1) % (360 * DegUnit)
    IN  IF d > 180 * DegUnit THEN d - 360 * DegUnit ELSE d

\* Math.acos(clamp(v0.dot(v1), -1, 1)) for the unit vectors of two sphere
\* points, in centidegrees: the length of the step from a to b on the
\* sphere, exact along a meridian and along the equator.
AngleBetween(a, b) ==
    LET dLat == b.a[1] - a.a[1]
        mid == (a.a[1] + b.a[1]) \div 2
        dLon == (LonDiff(a.a[2], b.a[2]) * CosMilli(mid)) \div 1000
    IN  Min2(Isqrt(dLat * dLat + dLon * dLon), 180 * DegUnit)

\* Math.ceil(x / y) for x >= 0, y > 0
CeilDiv(x, y) == (x + y - 1) \div y

----------------------------------------------------------------------------
(* Curve Densifier: densifySegments(points, speeds, maxAngleRad).          *)

\* The points segment i pushes: j = 0 .. steps - 1, without j = 0 when
\* `skipFirst` (the code's `if (i > 0 && j === 0) continue`).
SegmentPoints(a, b, steps, skipFirst) ==
    LET from == IF skipFirst THEN 1 ELSE 0
    IN  [ k \in 1..(steps - from) |-> Lerp3(a, b, from + k - 1, steps) ]

SegmentSpeeds(s0, s1, steps, skipFirst) ==
    LET from == IF skipFirst THEN 1 ELSE 0
    IN  [ k \in 1..(steps - from) |-> lerp(s0, s1, from + k - 1, steps) ]

\* const steps = Math.max(1, Math.ceil(angle / maxAngleRad));
StepsOf(a, b, maxAngle) == Max2(1, CeilDiv(AngleBetween(a, b), maxAngle))

\* speeds[i + 1] ?? s0   (1-based index k)
SpeedAt(speeds, k, s0) == IF k \in DOMAIN speeds THEN speeds[k] ELSE s0

\* The loop over the segments i .. n - 1 (1-based), appending to acc.
RECURSIVE DensifyFrom(_, _, _, _, _, _)
DensifyFrom(points, speeds, maxAngle, i, acc, skipAtFirst) ==
    IF i > Len(points) - 1 THEN acc
    ELSE LET a == points[i]
             b == points[i + 1]
             s0 == speeds[i]
             s1 == SpeedAt(speeds, i + 1, s0)
             steps == StepsOf(a, b, maxAngle)
             skip == (i > 1) \/ skipAtFirst
         IN  DensifyFrom(points, speeds, maxAngle, i + 1,
                 [ densePoints |-> acc.densePoints
                                     \o SegmentPoints(a, b, steps, skip),
                   denseSpeeds |-> acc.denseSpeeds
                                     \o SegmentSpeeds(s0, s1, steps, skip) ],
                 skipAtFirst)

NoDense == [ densePoints |-> <<>>, denseSpeeds |-> <<>> ]

\* densePoints.push(points[points.length - 1].clone());
\* denseSpeeds.push(speeds[speeds.length - 1]);
PushLast(acc, points, speeds) ==
    [ densePoints |-> Append(acc.densePoints, points[Len(points)]),
      denseSpeeds |-> Append(acc.denseSpeeds, speeds[Len(speeds)]) ]

\* Mutation of densifySegments: j = 0 is skipped in every segment, the first
\* included (`if (j === 0) continue`).
densifySegmentsSkipAll(points, speeds, maxAngle) ==
    PushLast(DensifyFrom(points, speeds, maxAngle, 1, NoDense, TRUE),
             points, speeds)

densifySegments(points, speeds, maxAngle) ==
    PushLast(DensifyFrom(points, speeds, maxAngle, 1, NoDense, FALSE),
             points, speeds)

----------------------------------------------------------------------------
(* Percentile Normalizer: percentile(arr, p).                              *)

\* The sequence s with x inserted before the first element greater than x.
RECURSIVE InsertSorted(_, _)
InsertSorted(s, x) ==
    IF s = <<>> THEN <<x>>
    ELSE IF x < Head(s) THEN <<x>> \o s
    ELSE <<Head(s)>> \o InsertSorted(Tail(s), x)

\* [...arr].sort((x, y) => x - y)
RECURSIVE SortAsc(_)
SortAsc(s) == IF s = <<>> THEN <<>> ELSE InsertSorted(SortAsc(Tail(s)), Head(s))

\* Mutation of percentile: the array is indexed without being sorted.
percentileUnsorted(arr, p) ==
    IF Len(arr) = 0 THEN NaN
    ELSE arr[Min2(Len(arr) - 1, Max2(0, (p * Len(arr)) \div 100)) + 1]

\* a[min(n - 1, max(0, floor(p / 100 * n)))] of the sorted copy; NaN when
\* the array is empty.
percentile(arr, p) ==
    IF Len(arr) = 0 THEN NaN
    ELSE LET a == SortAsc(arr)
             i == Min2(Len(a) - 1, Max2(0, (p * Len(a)) \div 100))
         IN  a[i + 1]

\* p90 - p10 || 1
DenomOf(p10, p90) ==
    IF ~IsFinite(p10) \/ ~IsFinite(p90) \/ p90 - p10 = 0 THEN 1 * WindUnit
    ELSE p90 - p10

\* clamp01((speed - p10) / denom), in thousandths
NormalizedSpeed(speed, p10, denom) ==
    IF ~IsFinite(p10) THEN NaN
    ELSE clamp(((speed - p10) * 1000) \div denom, 0, 1000)

----------------------------------------------------------------------------
(* Wind grids (the JSON of meta.grid.lat, meta.grid.lon, u, v).            *)

\* The wind at vertex (j, i) of a synthetic field, in WindUnit:
\*   uniform  pure eastward wind of 1 m/s (u = 1, v = 0)
\*   ramp     a different u and a different v at every vertex
\*   patchy   u in -3 .. 3 m/s, v in -1 .. 1 m/s, calm in places
\*   calm     0.5 m/s everywhere, below every speed threshold in use
\*   gale     40 m/s eastward, 10 m/s northward
\*   west     40 m/s westward
\*   polar    90 m/s northward
FieldU(kind, j, i) ==
    CASE kind = "uniform" -> 1 * WindUnit
      [] kind = "ramp" -> 7 * (3 * (j - 1) + (i - 1)) - 12
      [] kind = "patchy" -> WindUnit * (((3 * j + 5 * i) % 7) - 3)
      [] kind = "calm" -> 3
      [] kind = "gale" -> 40 * WindUnit
      [] kind = "west" -> 0 - 40 * WindUnit
      [] OTHER -> 0
FieldV(kind, j, i) ==
    CASE kind = "uniform" -> 0
      [] kind = "ramp" -> 11 * (j - 1) - 5 * (i - 1) + 4
      [] kind = "patchy" -> 5 * (((2 * j + i) % 5) - 2)
      [] kind = "calm" -> 4
      [] kind = "gale" -> 10 * WindUnit
      [] kind = "west" -> 0
      [] OTHER -> 90 * WindUnit

\* A grid over the axes lats x lons whose vertices carry the field `kind`,
\* except the components named in `missing` (<<"u", j, i>> or <<"v", j, i>>),
\* which are non-finite.
MkGrid(lats, lons, kind, missing) ==
    [ lat |-> lats, lon |-> lons,
      u |-> [ j \in 1..Len(lats) |-> [ i \in 1..Len(lons) |->
                IF <<"u", j, i>> \in missing THEN NaN ELSE FieldU(kind, j, i) ] ],
      v |-> [ j \in 1..Len(lats) |-> [ i \in 1..Len(lons) |->
                IF <<"v", j, i>> \in missing THEN NaN ELSE FieldV(kind, j, i) ] ] ]

Components(lats, lons) == {"u", "v"} \X (1..Len(lats)) \X (1..Len(lons))

\* The subsets of S with at most n elements.
RECURSIVE UpTo(_, _)
UpTo(S, n) ==
    IF n = 0 THEN {{}}
    ELSE LET smaller == UpTo(S, n - 1)
         IN  smaller \cup { T \cup {x} : T \in smaller, x \in S }

\* interpolateWind(lat, lon): the sampler on the component's grid.
interpolateWind(lat, lon) ==
    sampleBilinear(lat, lon, data.lat, data.lon, data.u, data.v)

----------------------------------------------------------------------------
(* Glyph Field Generator and pick-target build: init().                    *)

\* globeRadius (globe.js) + lift (options.lift ?? 0.03), in LenUnit.
GlobeRadius == 1300
Lift == 30

\* The Cartesian coordinates of latLonToVec3(lat, lon, globeRadius + lift):
\* phi = 90 - lat, theta = lon + 180,
\* (-r sin(phi) cos(theta), r cos(phi), r sin(phi) sin(theta)).
Cartesian(lat, lon) ==
    LET r == GlobeRadius + Lift
        phi == 90 * DegUnit - lat
        theta == lon + 180 * DegUnit
        rs == (r * SinMilli(phi)) \div 1000
    IN  << 0 - ((rs * CosMilli(theta)) \div 1000),
           (r * CosMilli(phi)) \div 1000,
           (rs * SinMilli(theta)) \div 1000 >>

\* p.distanceToSquared(q) for two sphere points
distanceToSquared(p, q) ==
    LET a == Cartesian(p.a[1], p.a[2])
        b == Cartesian(q.a[1], q.a[2])
    IN  (a[1] - b[1]) * (a[1] - b[1]) + (a[2] - b[2]) * (a[2] - b[2])
          + (a[3] - b[3]) * (a[3] - b[3])

\* Math.abs((axis[1] ?? axis[0]) - axis[0] || 1)
AxisStep(axis) ==
    IF Len(axis) < 2 \/ axis[2] - axis[1] = 0 THEN 1 * DegUnit
    ELSE Abs(axis[2] - axis[1])

\* The speeds of all vertices with finite u and v, row by row.
RECURSIVE FiniteSpeedsFrom(_, _, _)
FiniteSpeedsFrom(d, j, i) ==
    IF j > Len(d.lat) THEN <<>>
    ELSE IF i > Len(d.lon) THEN FiniteSpeedsFrom(d, j + 1, 1)
    ELSE LET u == Cell(d.u, j, i)
             v == Cell(d.v, j, i)
         IN  (IF IsFinite(u) /\ IsFinite(v) THEN <<hypot(u, v)>> ELSE <<>>)
               \o FiniteSpeedsFrom(d, j, i + 1)

\* Math.round(x / 1000) for x >= 0
RoundMilli(x) == (x + 500) \div 1000

\* lonStep of the row at latitude lat:
\* max(1, round(strideBase * (1 + poleStrideMul * (1 - max(0.001, cos lat)))))
LonStep(o, lat) ==
    LET cosw == Max2(1, CosMilli(lat))
    IN  Max2(1, RoundMilli(o.stride * (1000 + o.poleStrideMul * (1000 - cosw))))

\* iOffset of the row with 0-based index j0: half a step on every other row.
IOffset(o, j0, lat) ==
    IF (j0 \div o.stride) % 2 # 0 THEN LonStep(o, lat) \div 2 ELSE 0

\* The (0-based) columns i = iOffset; i < nLon; i += lonStep.
RECURSIVE ColumnsFrom(_, _, _)
ColumnsFrom(d, i0, step) ==
    IF i0 >= Len(d.lon) THEN <<>> ELSE <<i0>> \o ColumnsFrom(d, i0 + step, step)

\* The (1-based) vertices <<j, i>> the two loops visit, in order.
RECURSIVE VisitedFrom(_, _, _)
VisitedFrom(d, o, j0) ==
    IF j0 >= Len(d.lat) THEN <<>>
    ELSE LET lat == d.lat[j0 + 1]
             cols == ColumnsFrom(d, IOffset(o, j0, lat), LonStep(o, lat))
         IN  [ k \in 1..Len(cols) |-> <<j0 + 1, cols[k] + 1>> ]
               \o VisitedFrom(d, o, j0 + o.stride)

\* The n-th value Math.random() returns (n = 1, 2, ...), in thousandths.
Random(r, n) == r[((n - 1) % Len(r)) + 1]

\* (Math.random() - 0.5) * d * jitterAmt
Jitter(o, r, n, step) ==
    ((Random(r, n) - 500) * ((step * o.jitter) \div 1000)) \div 1000

\* dir = east * u + north * v has length 0: u = v = 0, or v = 0 at the
\* north pole, where sin(phi) = sin(0) = 0 makes eastPoint equal to start and
\* east (the normalised difference) 0.  At the south pole sin(phi) is the
\* sine of the double nearest to pi, not 0, and east is a unit vector.
DirIsZero(u, v, jLat) ==
    (u = 0 /\ v = 0) \/ (jLat = 90 * DegUnit /\ v = 0)

\* Mutation of gridStart: the anchor is the jittered start point.
gridStartJittered(lat, lon, jLat, jLon) == latLonToVec3(jLat, jLon)

\* const gridStart = latLonToVec3(lat, lons[i], globeRadius + lift), where
\* jLat and jLon are in scope as well.
gridStart(lat, lon, jLat, jLon) == latLonToVec3(lat, lon)

\* Mutation of Skipped: the speed threshold is not applied.
SkippedOnlyIfMissing(o, u, v) == ~IsFinite(u) \/ ~IsFinite(v)

\* The first two `continue`s of the loop body:
\*   if (!Number.isFinite(u) || !Number.isFinite(v)) continue;
\*   if (speed < speedThreshold) continue;
Skipped(o, u, v) ==
    \/ ~IsFinite(u) \/ ~IsFinite(v)
    \/ hypot(u, v) < o.speedThreshold

\* The glyph loops over the vertices vs[k..]: acc = [glyphs, candidates,
\* draws], draws counting the calls of Math.random() so far.
RECURSIVE GlyphLoop(_, _, _, _, _, _, _, _)
GlyphLoop(d, o, r, vs, k, acc, p10, denom) ==
    IF k > Len(vs) THEN acc
    ELSE LET j == vs[k][1]
             i == vs[k][2]
             lat == d.lat[j]
             u == Cell(d.u, j, i)
             v == Cell(d.v, j, i)
             jLat == lat + Jitter(o, r, acc.draws + 1, AxisStep(d.lat))
             jLon == d.lon[i] + Jitter(o, r, acc.draws + 2, AxisStep(d.lon))
             speed == hypot(u, v)
             t == NormalizedSpeed(speed, p10, denom)
         IN  IF Skipped(o, u, v)
             THEN GlyphLoop(d, o, r, vs, k + 1, acc, p10, denom)
             ELSE IF DirIsZero(u, v, jLat)
             THEN GlyphLoop(d, o, r, vs, k + 1, [ acc EXCEPT !.draws = @ + 2 ], p10, denom)
             ELSE GlyphLoop(d, o, r, vs, k + 1,
                    [ glyphs |-> Append(acc.glyphs,
                          [ start |-> latLonToVec3(jLat, jLon), j |-> j, i |-> i,
                            u |-> u, v |-> v, speed |-> speed,
                            normalizedSpeed |-> t ]),
                      candidates |-> Append(acc.candidates,
                          [ position |-> gridStart(lat, d.lon[i], jLat, jLon),
                            speed |-> speed, normalizedSpeed |-> t,
                            lat |-> lat, lon |-> d.lon[i],
                            j |-> j, i |-> i, u |-> u, v |-> v ]),
                      draws |-> acc.draws + 2 ],
                    p10, denom)

\* Mutation of TooClose: the distance is compared with one radius.
TooCloseOneRadius(o, placed, wp) ==
    /\ o.avoidHitboxOverlap
    /\ \E k \in DOMAIN placed :
          distanceToSquared(placed[k].position, wp.position)
              < o.hitboxRadius * o.hitboxRadius

\* tooClose: with avoidHitboxOverlap, some placed target is nearer than
\* 2 * hitboxRadius (squared distances).
TooClose(o, placed, wp) ==
    /\ o.avoidHitboxOverlap
    /\ \E k \in DOMAIN placed :
          distanceToSquared(placed[k].position, wp.position)
              < (o.hitboxRadius * 2) * (o.hitboxRadius * 2)

\* candidateWindPoints.forEach(...): greedy placement in generation order.
RECURSIVE PlaceFrom(_, _, _, _)
PlaceFrom(o, cands, k, placed) ==
    IF k > Len(cands) THEN placed
    ELSE IF TooClose(o, placed, cands[k]) THEN PlaceFrom(o, cands, k + 1, placed)
    ELSE PlaceFrom(o, cands, k + 1, Append(placed, cands[k]))

\* init(), from the speed pass to the hitbox spheres, for a grid that passes
\* the guard `!data?.meta?.grid || !d.u || !d.v`.  The positions and
\* colors buffers hold, per glyph, its jittered start point, the end point
\* start + dir * segLen and the colour of normalizedSpeed.
BuildFieldOf(d, o, r) ==
    LET speeds == FiniteSpeedsFrom(d, 1, 1)
        p10 == percentile(speeds, 10)
        p90 == percentile(speeds, 90)
        denom == DenomOf(p10, p90)
        res == GlyphLoop(d, o, r, VisitedFrom(d, o, 0), 1,
                       [ glyphs |-> <<>>, candidates |-> <<>>, draws |-> 0 ],
                       p10, denom)
    IN  [ glyphs |-> res.glyphs, candidates |-> res.candidates,
          windPoints |-> PlaceFrom(o, res.candidates, 1, <<>>) ]

\* init() of the component built from the grid `data` with `opts`, the calls
\* of Math.random() returning `rng`.
BuildField == BuildFieldOf(data, opts, rng)

----------------------------------------------------------------------------
(* Streamline Integrator: generateStreamline(startLat, startLon).          *)

\* wind * step with step = stepSize * 0.3 = 0.35 * 0.3 degrees per m/s:
\* 1.05 centidegrees per 0.1 m/s.
StepDelta(w) == (w * 105) \div 100

\* Mutation of WrapLon: only the upper end is wrapped.
WrapLonUpperOnly(lon) ==
    IF lon > 180 * DegUnit THEN lon - 360 * DegUnit ELSE lon

\* if (lon < -180) lon += 360; if (lon > 180) lon -= 360;
WrapLon(lon) ==
    LET l1 == IF lon < 0 - 180 * DegUnit THEN lon + 360 * DegUnit ELSE lon
    IN  IF l1 > 180 * DegUnit THEN l1 - 360 * DegUnit ELSE l1

NoPath == [ points |-> <<>>, speeds |-> <<>> ]

\* The integration loop from iteration i (0-based) at (lat, lon): the
\* accepted points and their speeds.  pathInfo[k] = { position, lat, lon }
\* is points[k] with its own lat and lon, points[k].a.
RECURSIVE IntegrateFrom(_, _, _, _)
IntegrateFrom(lat, lon, i, acc) ==
    IF i >= opts.streamlineSegments THEN acc
    ELSE LET wind == interpolateWind(lat, lon)
         IN  IF wind.isNull THEN acc
             ELSE IF hypot(wind.u, wind.v) < opts.speedThreshold THEN acc
             ELSE LET next == [ points |-> Append(acc.points, latLonToVec3(lat, lon)),
                                speeds |-> Append(acc.speeds, hypot(wind.u, wind.v)) ]
                      lat2 == lat + StepDelta(wind.v)
                      lon2 == lon + StepDelta(wind.u)
                  IN  IF lat2 < 0 - 90 * DegUnit \/ lat2 > 90 * DegUnit THEN next
                      ELSE IntegrateFrom(lat2, WrapLon(lon2), i + 1, next)

\* Mutation of Integrate: a sample slower than the threshold is accepted.
RECURSIVE IntegrateKeepSlowFrom(_, _, _, _)
IntegrateKeepSlowFrom(lat, lon, i, acc) ==
    IF i >= opts.streamlineSegments THEN acc
    ELSE LET wind == interpolateWind(lat, lon)
         IN  IF wind.isNull THEN acc
             ELSE LET next == [ points |-> Append(acc.points, latLonToVec3(lat, lon)),
                                speeds |-> Append(acc.speeds, hypot(wind.u, wind.v)) ]
                      lat2 == lat + StepDelta(wind.v)
                      lon2 == lon + StepDelta(wind.u)
                  IN  IF lat2 < 0 - 90 * DegUnit \/ lat2 > 90 * DegUnit THEN next
                      ELSE IntegrateKeepSlowFrom(lat2, WrapLon(lon2), i + 1, next)

IntegrateKeepSlow(startLat, startLon) ==
    IntegrateKeepSlowFrom(startLat, startLon, 0, NoPath)

Integrate(startLat, startLon) == IntegrateFrom(startLat, startLon, 0, NoPath)

\* What generateStreamline returns: null, or { line, points, curve, speeds }
\* (line: the tube mesh was created; curve: the CurvePath through points).
NoStreamline ==
    [ isNull |-> TRUE, line |-> FALSE, curve |-> FALSE,
      points |-> <<>>, speeds |-> <<>> ]

\* degToRad(0.5), in centidegrees
MaxAngleHalfDegree == DegUnit \div 2

\* The part of generateStreamline after the loop, for the accepted path.
\* minPoints is the 2 of `if (points.length < 2) return null`.
FinishStreamline(path, minPoints) ==
    IF Len(path.points) < minPoints THEN NoStreamline
    ELSE LET p10 == percentile(path.speeds, 10)
             p90 == percentile(path.speeds, 90)
             denom == DenomOf(p10, p90)
             d == densifySegments(path.points, path.speeds, MaxAngleHalfDegree)
         IN  [ isNull |-> FALSE, line |-> TRUE, curve |-> TRUE,
               points |-> d.densePoints,
               speeds |-> [ k \in DOMAIN d.denseSpeeds |->
                              NormalizedSpeed(d.denseSpeeds[k], p10, denom) ] ]

\* Mutation of generateStreamline: a path of one point is accepted.
generateStreamlineOnePoint(startLat, startLon) ==
    FinishStreamline(Integrate(startLat, startLon), 1)

generateStreamline(startLat, startLon) ==
    FinishStreamline(Integrate(startLat, startLon), 2)

----------------------------------------------------------------------------
(* Global streamlines: build() of createGlobalWindStreamlines, for one     *)
(* seed.  Its sampleBilinear is, statement by statement, the one of        *)
(* interactiveWind.js.                                                     *)

\* while (x > 180) x -= 360; while (x < -180) x += 360;
RECURSIVE wrapLon180(_)
wrapLon180(lon) ==
    IF lon > 180 * DegUnit THEN wrapLon180(lon - 360 * DegUnit)
    ELSE IF lon < 0 - 180 * DegUnit THEN wrapLon180(lon + 360 * DegUnit)
    ELSE lon

\* The loop `for (k = 0; k < steps; k++)` from iteration k at (lat, lon),
\* with steps = streamlineSegments and minSpeed = speedThreshold: the
\* points pushed to pts.  lon is not wrapped between the iterations, only
\* in the point that is pushed.
RECURSIVE GlobalIntegrateFrom(_, _, _, _)
GlobalIntegrateFrom(lat, lon, k, pts) ==
    IF k >= opts.streamlineSegments THEN pts
    ELSE LET s == interpolateWind(lat, lon)
         IN  IF s.isNull THEN pts
             ELSE IF hypot(s.u, s.v) < opts.speedThreshold THEN pts
             ELSE LET next == Append(pts, latLonToVec3(lat, wrapLon180(lon)))
                      lat2 == lat + StepDelta(s.v)
                      lon2 == lon + StepDelta(s.u)
                  IN  IF lat2 < 0 - (895 * DegUnit) \div 10
                           \/ lat2 > (895 * DegUnit) \div 10
                      THEN next
                      ELSE GlobalIntegrateFrom(lat2, lon2, k + 1, next)

\* The seed test (s0 missing or slower than minSpeed: continue) is the test
\* of the first iteration.
GlobalIntegrate(seedLat, seedLon) == GlobalIntegrateFrom(seedLat, seedLon, 0, <<>>)

----------------------------------------------------------------------------
(* Region lookup: describeRegions(lat, lon).landmarks.                     *)

\* The features of data/windRegions.json, here two boxes
\* <<name, minLat, maxLat, minLon, maxLon>> in degrees.
Features ==
    << <<"Sahara", 0 - 5, 5, 0 - 5, 5>>, <<"Gulf Stream", 0, 50, 0, 90>> >>

\* The names of the features that contain (lat, lon), in file order.
RECURSIVE LandmarksFrom(_, _, _)
LandmarksFrom(lat, lon, k) ==
    IF k > Len(Features) THEN <<>>
    ELSE LET f == Features[k]
             inside == /\ f[2] * DegUnit < lat /\ lat <= f[3] * DegUnit
                       /\ f[4] * DegUnit < lon /\ lon <= f[5] * DegUnit
         IN  (IF inside THEN <<f[1]>> ELSE <<>>) \o LandmarksFrom(lat, lon, k + 1)

describeRegions(lat, lon) == LandmarksFrom(lat, WrapLon(lon), 1)

----------------------------------------------------------------------------
(* The selection controller: the closure variables of createInteractiveWind *)
(* and what its handlers touch outside it.  A handler is a function from   *)
(* the state before it to the state after it; a statement that follows a   *)
(* throw leaves the state as it is.                                        *)

MaxObjects == 4

NoPassport ==
    [ active |-> FALSE, speed |-> 0, normalizedSpeed |-> 0,
      lat |-> 0, lon |-> 0, visited |-> <<>> ]

\* The payload of a `wind:select` event: null, or the detail object.
NullDetail ==
    [ isNull |-> TRUE, lat |-> 0, lon |-> 0, speed |-> 0,
      normalizedSpeed |-> 0, landmarks |-> <<>> ]

\* The state right after createInteractiveWind(...).init() on a grid that
\* passes init's guard, with the globe and the panel as main.js and the page
\* set them up.
InitialState ==
    [ leafLoad |-> "pending",      \* loader.load(leafModelPath, ...) in flight
      leafModel |-> FALSE,         \* leafModel !== null
      selectedLeaf |-> 0,          \* the particle's object id, 0 for null
      selectedStreamline |-> 0,    \* the tube mesh's object id, 0 for null
      leafWindData |-> 0,          \* index into windPoints, 0 for null
      leafAnimTime |-> 0,
      leafOnCurve |-> FALSE,       \* selectedLeaf.position was set by update
      leafT |-> 0,                 \* ... to the curve's point at leafT / 1000
      streamlinePoints |-> <<>>,
      streamlineCurve |-> FALSE,   \* streamlineCurve !== null
      streamlinePathInfo |-> <<>>,
      passportState |-> NoPassport,
      leafGroup |-> {},            \* ids of leafGroup's children
      disposals |-> [ id \in 1..MaxObjects |-> 0 ],  \* dispose() calls per object
      nextId |-> 1,
      attached |-> TRUE,           \* group and leafGroup are in globeGroup
      windPointsCleared |-> FALSE, \* windPoints.length = 0 has run
      autoRotate |-> TRUE,         \* globe.js: let autoRotate = true
      panelVisible |-> FALSE,      \* #wind-info-panel has class `visible`
      panelShows |-> 0,            \* the windPoints index showWindInfo wrote
      clickListener |-> TRUE,      \* canvas `click` -> onCanvasClick
      closeListener |-> TRUE,      \* #wind-info-close `click` -> close handler
      emitted |-> <<>>,            \* events dispatched by the last handler
      thrown |-> FALSE,            \* the last handler ended by an exception
      lastOp |-> "init",           \* the last handler that ran
      picked |-> 0,                \* the pick target chosen last and not
                                   \* deselected since, 0 for none
      target |-> 0 ]               \* the hitbox its ray hit, if it was a click

\* Whether `passportState` is declared anywhere in interactiveWind.js.  It
\* is not: lines 300 and 315 assign to it and no let, const or var names
\* it.  The file is an ES module (it has import declarations), so its code
\* is strict and such an assignment throws a ReferenceError.
PassportStateDeclared == FALSE

\* Whether info1, info2, localT (const inside the else block of lines
\* 870-882) and lerpWrappedLon (defined nowhere) are in scope at lines
\* 904-905 of update.  They are not: evaluating line 904 throws.
UpdateLocalsInScope == FALSE

Throw(s) == [ s EXCEPT !.thrown = TRUE ]

\* dispatchPassportEvent(detail)
dispatchPassportEvent(s, detail) ==
    IF s.thrown THEN s ELSE [ s EXCEPT !.emitted = Append(@, detail) ]

\* stopPassportTracking(): passportState = null; dispatchPassportEvent(null);
stopPassportTracking(s) ==
    IF s.thrown THEN s
    ELSE IF ~PassportStateDeclared THEN Throw(s)
    ELSE dispatchPassportEvent([ s EXCEPT !.passportState = NoPassport ], NullDetail)

\* hideWindInfo(): panel.classList.remove('visible'); stopPassportTracking();
hideWindInfo(s) ==
    IF s.thrown THEN s
    ELSE stopPassportTracking([ s EXCEPT !.panelVisible = FALSE ])

\* emitPassportDetail()
emitPassportDetail(s) ==
    IF s.thrown \/ ~s.passportState.active THEN s
    ELSE dispatchPassportEvent(s,
            [ isNull |-> FALSE, lat |-> s.passportState.lat,
              lon |-> s.passportState.lon, speed |-> s.passportState.speed,
              normalizedSpeed |-> s.passportState.normalizedSpeed,
              landmarks |-> s.passportState.visited ])

\* visited with the names of `names` it does not hold yet, in order.
RECURSIVE AddVisited(_, _)
AddVisited(visited, names) ==
    IF names = <<>> THEN visited
    ELSE AddVisited(IF \E k \in DOMAIN visited : visited[k] = Head(names)
                    THEN visited ELSE Append(visited, Head(names)),
                    Tail(names))

\* updatePassportLocation(lat, lon, { forceEmit })
updatePassportLocation(s, lat, lon, forceEmit) ==
    IF s.thrown THEN s
    ELSE IF ~PassportStateDeclared THEN Throw(s)
    ELSE IF ~s.passportState.active THEN s
    ELSE LET visited == AddVisited(s.passportState.visited, describeRegions(lat, lon))
             s1 == [ s EXCEPT !.passportState.lat = lat, !.passportState.lon = lon,
                              !.passportState.visited = visited ]
         IN  IF forceEmit \/ visited # s.passportState.visited
             THEN emitPassportDetail(s1) ELSE s1

\* startPassportTracking(windData)
startPassportTracking(s, wp) ==
    IF s.thrown THEN s
    ELSE IF ~PassportStateDeclared THEN Throw(s)
    ELSE updatePassportLocation(
            [ s EXCEPT !.passportState =
                [ active |-> TRUE, speed |-> wp.speed,
                  normalizedSpeed |-> wp.normalizedSpeed,
                  lat |-> 0, lon |-> 0, visited |-> <<>> ] ],
            wp.lat, wp.lon, TRUE)

\* if (selectedLeaf) { leafGroup.remove(selectedLeaf); selectedLeaf.traverse(
\* dispose); [selectedLeaf = null;] }
removeLeaf(s, setNull) ==
    IF s.thrown \/ s.selectedLeaf = 0 THEN s
    ELSE [ s EXCEPT !.leafGroup = @ \ {s.selectedLeaf},
                    !.disposals[s.selectedLeaf] = @ + 1,
                    !.selectedLeaf = IF setNull THEN 0 ELSE @ ]

\* if (selectedStreamline) { leafGroup.remove(selectedStreamline);
\* geometry.dispose(); material.dispose(); [selectedStreamline = null;] }
removeStreamline(s, setNull) ==
    IF s.thrown \/ s.selectedStreamline = 0 THEN s
    ELSE [ s EXCEPT !.leafGroup = @ \ {s.selectedStreamline},
                    !.disposals[s.selectedStreamline] = @ + 1,
                    !.selectedStreamline = IF setNull THEN 0 ELSE @ ]

\* setAutoRotate(enabled) of globe.js, always passed in by main.js
setAutoRotate(s, enabled) ==
    IF s.thrown THEN s ELSE [ s EXCEPT !.autoRotate = enabled ]

\* const streamlineResult = generateStreamline(...); if (streamlineResult)
\* { ... leafGroup.add(selectedStreamline) } else { streamlinePoints = [];
\* streamlineCurve = null; }
buildStreamline(s, wp) ==
    IF s.thrown THEN s
    ELSE LET r == generateStreamline(wp.lat, wp.lon)
         IN  IF ~r.isNull
             THEN [ s EXCEPT !.selectedStreamline = s.nextId,
                             !.nextId = @ + 1,
                             !.streamlinePoints = r.points,
                             !.streamlineCurve = TRUE,
                             !.leafGroup = @ \cup {s.nextId} ]
             ELSE [ s EXCEPT !.streamlinePoints = <<>>,
                             !.streamlineCurve = FALSE ]

\* selectedLeaf = leafModel.clone(); position.copy(windData.position);
\* leafWindData = windData; leafAnimTime = 0; ... leafGroup.add(selectedLeaf);
addLeaf(s, k) ==
    IF s.thrown THEN s
    ELSE [ s EXCEPT !.selectedLeaf = s.nextId, !.nextId = @ + 1,
                    !.leafOnCurve = FALSE, !.leafT = 0,
                    !.leafWindData = k, !.leafAnimTime = 0,
                    !.leafGroup = @ \cup {s.nextId} ]

\* showWindInfo(windData)
showWindInfo(s, k) ==
    IF s.thrown THEN s ELSE [ s EXCEPT !.panelVisible = TRUE, !.panelShows = k ]

\* A handler starts: nothing thrown or dispatched yet.
Enter(s, op, k) ==
    [ s EXCEPT !.thrown = FALSE, !.emitted = <<>>, !.lastOp = op, !.target = k ]

\* streamlinePathInfo = [];
clearPathInfo(s) ==
    IF s.thrown THEN s ELSE [ s EXCEPT !.streamlinePathInfo = <<>> ]

\* The branch `intersects.length > 0` of onCanvasClick, for the hit target
\* windPoints[k].  In program order (innermost first): setAutoRotate(false),
\* remove the previous leaf, remove the previous streamline, reset
\* streamlinePathInfo, stopPassportTracking(), build the streamline, add the
\* leaf, startPassportTracking(windData), showWindInfo(windData).
ClickHitBody(s, k) ==
    showWindInfo(
      startPassportTracking(
        addLeaf(
          buildStreamline(
            stopPassportTracking(
              clearPathInfo(
                removeStreamline(
                  removeLeaf(setAutoRotate(s, FALSE), FALSE), FALSE))),
            windPoints[k]),
          k),
        windPoints[k]),
      k)

\* The else branch of onCanvasClick: the ray intersects no hitbox.
ClickMissBody(s) ==
    LET s1 == removeLeaf(s, TRUE)
        s2 == removeStreamline(s1, TRUE)
        s3 == [ s2 EXCEPT !.leafWindData = 0, !.leafAnimTime = 0,
                          !.streamlinePoints = <<>>, !.streamlineCurve = FALSE ]
        s4 == setAutoRotate(s3, TRUE)
        s5 == hideWindInfo(s4)
    IN  stopPassportTracking(s5)

\* Mutation of onCanvasClick: the guard `if (!leafModel) return` is missing.
onCanvasClickUnguarded(s, k) ==
    IF k # 0 THEN ClickHitBody(Enter(s, "click", k), k)
    ELSE ClickMissBody(Enter(s, "click", k))

\* onCanvasClick(event); k is the index of the nearest hitbox the ray
\* intersects, 0 when it intersects none.
onCanvasClick(s, k) ==
    IF ~s.leafModel THEN Enter(s, "click", k)
    ELSE IF k # 0 THEN ClickHitBody(Enter(s, "click", k), k)
    ELSE ClickMissBody(Enter(s, "click", k))

\* The click listener of #wind-info-close installed by init().
onCloseClick(s) ==
    LET s0 == hideWindInfo(Enter(s, "close", 0))
        s1 == removeLeaf(s0, TRUE)
        s2 == removeStreamline(s1, TRUE)
        s3 == IF s2.thrown THEN s2
              ELSE [ s2 EXCEPT !.leafWindData = 0, !.leafAnimTime = 0,
                               !.streamlinePoints = <<>>, !.streamlineCurve = FALSE,
                               !.streamlinePathInfo = <<>> ]
        s4 == stopPassportTracking(s3)
    IN  setAutoRotate(s4, TRUE)

\* dispose()
dispose(s) ==
    LET s0 == [ Enter(s, "dispose", 0) EXCEPT !.clickListener = FALSE,
                                           !.closeListener = FALSE ]
        s1 == hideWindInfo(s0)
        s2 == removeLeaf(s1, FALSE)
        s3 == removeStreamline(s2, FALSE)
        s4 == IF s3.thrown THEN s3
              ELSE [ s3 EXCEPT !.attached = FALSE,
                               !.leafGroup = {}, !.windPointsCleared = TRUE,
                               !.streamlinePathInfo = <<>> ]
    IN  stopPassportTracking(s4)

\* options.animDuration ?? 3.0, in seconds
AnimDuration == 3

\* update(dt), dt in seconds
update(s, dt) ==
    LET s0 == Enter(s, "update", 0)
    IN  IF ~(s.selectedLeaf # 0 /\ s.leafWindData # 0
               /\ (s.streamlineCurve \/ Len(s.streamlinePoints) > 1))
        THEN s0
        ELSE LET time == s.leafAnimTime + dt
                 t == ((time % AnimDuration) * 1000) \div AnimDuration
                 s1 == [ s0 EXCEPT !.leafAnimTime = time,
                                   !.leafOnCurve = TRUE, !.leafT = t ]
             IN  IF ~UpdateLocalsInScope THEN Throw(s1)
                 ELSE LET wp == windPoints[s.leafWindData]
                      IN  updatePassportLocation(s1, wp.lat, wp.lon, FALSE)

----------------------------------------------------------------------------
(* Sampler runs: a grid is fixed, then sampled at one point.               *)

MaxMissing == 1

SamplerLatAxes ==
    { <<0, 10 * DegUnit>>, <<10 * DegUnit, 0>>,
      <<0, 10 * DegUnit, 20 * DegUnit>>, <<0>> }
SamplerLonAxes ==
    { <<0, 10 * DegUnit>>, <<0 - 10 * DegUnit, 0, 10 * DegUnit>>,
      <<0, 180 * DegUnit, 350 * DegUnit>> }

SamplerGrids ==
    UNION { { MkGrid(ax[1], ax[2], k, m) :
                k \in {"uniform", "ramp"},
                m \in UpTo(Components(ax[1], ax[2]), MaxMissing) } :
            ax \in SamplerLatAxes \X SamplerLonAxes }

Range(f) == { f[k] : k \in DOMAIN f }

QueryLats == Range(data.lat) \cup { 0 - 5 * DegUnit, 5 * DegUnit, 25 * DegUnit }
QueryLons == Range(data.lon) \cup { 0 - 5 * DegUnit, 5 * DegUnit, 200 * DegUnit }

NoQuery == [ asked |-> FALSE, lat |-> 0, lon |-> 0 ]

SamplerIdle == query = NoQuery /\ sampled = Null

NoDensifyInput == [ points |-> <<>>, speeds |-> <<>>, maxAngle |-> 1 ]
NotDensified == [ done |-> FALSE, densePoints |-> <<>>, denseSpeeds |-> <<>> ]
DensifyIdle == dIn = NoDensifyInput /\ dOut = NotDensified

MaxSegments == 4

\* The options createInteractiveWind falls back to (`options.x ?? default`),
\* with at most MaxSegments integration steps.
DefaultOptions ==
    [ stride |-> 8, poleStrideMul |-> 2, jitter |-> 300,
      speedThreshold |-> 1 * WindUnit, hitboxRadius |-> 50,
      avoidHitboxOverlap |-> TRUE, streamlineSegments |-> MaxSegments ]

\* No build before the current one.
NoPrev == [ built |-> FALSE, rng |-> <<>>, glyphs |-> <<>>, windPoints |-> <<>> ]

\* Nothing built: init() has not run.
BuildIdle ==
    /\ opts = DefaultOptions /\ rng = <<500>>
    /\ built = FALSE /\ glyphs = <<>>
    /\ candidateWindPoints = <<>> /\ windPoints = <<>>
    /\ prev = NoPrev

\* No streamline asked for yet; globalPts: the points the global streamline
\* component accepts from the same seed.
NoSeed == [ given |-> FALSE, lat |-> 0, lon |-> 0, globalPts |-> <<>> ]
StreamIdle == seed = NoSeed /\ slRaw = NoPath /\ slOut = NoStreamline

MaxLevel == 1
MaxLoads == 2

\* The wind levels of levels.json.
Levels == 0..MaxLevel

\* main.js before the first level has loaded: no interactiveWind in the
\* registry, currentWindLevel = INITIAL_WIND_LEVEL = 0, no load in flight.
MainIdle ==
    [ registered |-> FALSE,         \* components.has('interactiveWind')
      installedLevel |-> 0 - 1,     \* the level its data came from, -1: none
      currentWindLevel |-> 0,
      inflight |-> [ l \in Levels |-> 0 ],  \* setWindLevel calls awaiting
                                            \* loadWindLevel(l)
      controlDisabled |-> FALSE,    \* the level control's disabled flag
      status |-> "",                \* the level control's status text
      settled |-> 0 - 1 ]           \* the level whose load settled last

UiIdle == st = InitialState /\ main = MainIdle

NoPercentile ==
    [ done |-> FALSE, arr |-> <<>>, p |-> 0, value |-> NaN, arrAfter |-> <<>> ]
PercentileIdle == pRun = NoPercentile

\* No registry, tile or wind-vector run.
NoRegistry == [ on |-> FALSE ]
NoClient == [ on |-> FALSE ]
NoWindVectors == [ on |-> FALSE ]
RestIdle == reg = NoRegistry /\ client = NoClient /\ wv = NoWindVectors

InitSampler ==
    /\ data \in SamplerGrids
    /\ SamplerIdle
    /\ DensifyIdle
    /\ BuildIdle
    /\ StreamIdle
    /\ UiIdle
    /\ PercentileIdle
    /\ RestIdle

Sample(lat, lon) ==
    /\ ~query.asked
    /\ query' = [ asked |-> TRUE, lat |-> lat, lon |-> lon ]
    /\ sampled' = interpolateWind(lat, lon)
    /\ UNCHANGED <<data, densifyVars, opts, rng, buildVars, streamVars, st, main, prev, pRun, restVars>>

NextSampler == \E lat \in QueryLats, lon \in QueryLons : Sample(lat, lon)

SpecSampler == InitSampler /\ [][NextSampler]_vars

----------------------------------------------------------------------------
(* Claims about the Grid Sampler, checked under SpecSampler.               *)

\* The cell the sampler selects for the query of the current state.
QueryCell ==
    SelectCell(query.lat, query.lon, data.lat, data.lon, data.u, data.v)

GridAtLeast2x2 == Len(data.lat) >= 2 /\ Len(data.lon) >= 2

\* C1: whenever any u or v value at the four corners of the cell selected
\* for the query is non-finite, sampleBilinear has returned null, never a
\* numeric { u, v } (a missing corner is not turned into 0).
C1_MissingCornerGivesNull ==
    (query.asked /\ GridAtLeast2x2 /\ ~CornersFinite(QueryCell))
        => (sampled.isNull /\ sampled = Null)

\* C1 witness: a query whose cell has a missing corner and a finite one (so
\* a zero-filled interpolation would have produced a number) was answered.
C1_Witness ==
    /\ query.asked /\ GridAtLeast2x2
    /\ ~IsFinite(QueryCell.u10) /\ IsFinite(QueryCell.u00)
    /\ query.lat = data.lat[QueryCell.j0] /\ query.lon = data.lon[QueryCell.i0]
    /\ sampled.isNull

\* The value stored at vertex (j, i): { u, v }, or missing when either is.
Stored(j, i) ==
    IF IsFinite(data.u[j][i]) /\ IsFinite(data.v[j][i])
    THEN UV(data.u[j][i], data.v[j][i])
    ELSE Null

OnVertex(j, i) ==
    query.asked /\ query.lat = data.lat[j] /\ query.lon = data.lon[i]

\* C2 as claimed: on every grid of at least 2 x 2 vertices a query exactly
\* on vertex (j, i) returns the value stored at that vertex.
C2_Original ==
    GridAtLeast2x2 =>
        \A j \in DOMAIN data.lat, i \in DOMAIN data.lon :
            OnVertex(j, i) => sampled = Stored(j, i)

\* C2 amended: a query exactly on vertex (j, i) returns the value stored at
\* that vertex provided all four corners of the cell the sampler selects
\* are finite; when one of them is not, it returns null instead.
C2_VertexExactOnFiniteCell ==
    GridAtLeast2x2 =>
        \A j \in DOMAIN data.lat, i \in DOMAIN data.lon :
            OnVertex(j, i) =>
                sampled = IF CornersFinite(QueryCell) THEN Stored(j, i) ELSE Null

\* C2 witness: an interior-or-last vertex (weight 1 on both axes) of a grid
\* with distinct values was sampled and its stored value came back.
C2_Witness ==
    /\ GridAtLeast2x2 /\ OnVertex(2, 2)
    /\ data.u[2][2] # data.u[1][1] /\ data.u[2][2] # data.u[1][2]
    /\ ~sampled.isNull /\ sampled = Stored(2, 2)

\* Scenario A: lat = [0, 10], lon = [0, 10], u = 1, v = 0 everywhere.
ScenarioA == MkGrid(<<0, 10 * DegUnit>>, <<0, 10 * DegUnit>>, "uniform", {})
\* Scenario B: the same grid with u[0][0] = NaN.
ScenarioB ==
    MkGrid(<<0, 10 * DegUnit>>, <<0, 10 * DegUnit>>, "uniform", {<<"u", 1, 1>>})

AskedAt(lat, lon) == query.asked /\ query.lat = lat /\ query.lon = lon

\* C3 as claimed: on the grid of scenario B, sampling at (0, 0) returns
\* missing and sampling at (10, 10) returns { u: 1, v: 0 }.
C3_Original ==
    data = ScenarioB =>
        /\ AskedAt(0, 0) => sampled = Null
        /\ AskedAt(10 * DegUnit, 10 * DegUnit) => sampled = UV(1 * WindUnit, 0)

\* C3 amended: on the grid of scenario B, sampling at (0, 0) and sampling at
\* (10, 10) both return missing (the grid has one cell and the NaN is one of
\* its corners); { u: 1, v: 0 } is returned at (10, 10) on the grid of
\* scenario A, which has no NaN.
C3_ScenarioB ==
    /\ data = ScenarioB =>
          /\ AskedAt(0, 0) => sampled = Null
          /\ AskedAt(10 * DegUnit, 10 * DegUnit) => sampled = Null
    /\ (data = ScenarioA /\ AskedAt(10 * DegUnit, 10 * DegUnit))
          => sampled = UV(1 * WindUnit, 0)

\* C3 witness: the grid of scenario B was sampled at (10, 10).
C3_Witness ==
    data = ScenarioB /\ AskedAt(10 * DegUnit, 10 * DegUnit) /\ sampled = Null

----------------------------------------------------------------------------
(* Densifier runs: a polyline with aligned speeds and a maximum angle are  *)
(* fixed, then densifySegments is applied to them.                         *)

MaxPolyline == 3

\* Sphere points 0.3 to 2 degrees apart, on the equator and off it, and one
\* far away.
PolyPoints ==
    { latLonToVec3(p[1], p[2]) :
        p \in { <<0, 0>>, <<0, 30>>, <<0, 60>>, <<0, 2 * DegUnit>>,
                <<DegUnit, 2 * DegUnit>>, <<0 - 40, 10 * DegUnit>>,
                <<0, 0 - 10 * DegUnit>> } }

\* 0.5 degrees (degToRad(0.5), the value generateStreamline passes), a
\* finer and a coarser one.
MaxAngles == { 20, DegUnit \div 2, 90 * DegUnit }

Polylines == UNION { [ 1..n -> PolyPoints ] : n \in 2..MaxPolyline }

\* Two speed profiles aligned with a polyline of n points.
SpeedProfiles(n) ==
    { [ k \in 1..n |-> 3 * WindUnit ],
      [ k \in 1..n |-> (2 * k + 1) * WindUnit + k ] }

InitDensify ==
    /\ data = ScenarioA
    /\ SamplerIdle
    /\ \E pts \in Polylines, ma \in MaxAngles :
          \E sp \in SpeedProfiles(Len(pts)) :
              dIn = [ points |-> pts, speeds |-> sp, maxAngle |-> ma ]
    /\ dOut = NotDensified
    /\ BuildIdle
    /\ StreamIdle
    /\ UiIdle
    /\ PercentileIdle
    /\ RestIdle

Densify ==
    /\ ~dOut.done
    /\ LET r == densifySegments(dIn.points, dIn.speeds, dIn.maxAngle)
       IN  dOut' = [ done |-> TRUE, densePoints |-> r.densePoints,
                     denseSpeeds |-> r.denseSpeeds ]
    /\ UNCHANGED <<data, samplerVars, dIn, opts, rng, buildVars, streamVars, st, main, prev, pRun, restVars>>

NextDensify == Densify

SpecDensify == InitDensify /\ [][NextDensify]_vars

\* C4: densifySegments returns at least as many points as it was given
\* (n >= 2 points, aligned speeds, maxAngle > 0).
C4_NeverFewerPoints ==
    dOut.done => Len(dOut.densePoints) >= Len(dIn.points)

\* C5: the output starts with the first input point and its speed, ends with
\* the last input point and its speed, and holds as many speeds as points.
C5_EndsPreserved ==
    dOut.done =>
        /\ Len(dOut.densePoints) = Len(dOut.denseSpeeds)
        /\ Len(dOut.densePoints) >= 2
        /\ dOut.densePoints[1] = dIn.points[1]
        /\ dOut.denseSpeeds[1] = dIn.speeds[1]
        /\ dOut.densePoints[Len(dOut.densePoints)] = dIn.points[Len(dIn.points)]
        /\ dOut.denseSpeeds[Len(dOut.denseSpeeds)] = dIn.speeds[Len(dIn.speeds)]

\* C5 witness: a polyline of three different points with different speeds
\* was densified into more points than it had, sub-steps included.
C5_Witness ==
    /\ dOut.done
    /\ Len(dIn.points) = 3
    /\ dIn.points[1] # dIn.points[2] /\ dIn.points[2] # dIn.points[3]
    /\ dIn.speeds[1] # dIn.speeds[3]
    /\ Len(dOut.densePoints) > 3
    /\ dOut.densePoints[1] = dIn.points[1]
    /\ dOut.densePoints[Len(dOut.densePoints)] = dIn.points[3]

----------------------------------------------------------------------------
(* Glyph field runs: a grid, the options and the random draws are fixed,   *)
(* then init() builds the glyphs and the pick targets.                     *)

GlyphLatAxes ==
    { <<0, 2 * DegUnit, 4 * DegUnit>>, <<0, 5 * DegUnit, 10 * DegUnit>>,
      <<80 * DegUnit, 85 * DegUnit, 90 * DegUnit>> }
GlyphLonAxes ==
    { <<0, 2 * DegUnit, 4 * DegUnit, 6 * DegUnit>>,
      <<0, 5 * DegUnit, 10 * DegUnit, 15 * DegUnit>> }
GlyphMissing == { {}, { <<"u", 1, 1>> }, { <<"v", 2, 3>> } }

GlyphGrids ==
    { MkGrid(la, lo, k, m) :
        la \in GlyphLatAxes, lo \in GlyphLonAxes,
        k \in {"uniform", "ramp", "patchy", "calm", "gale"},
        m \in GlyphMissing }

\* Stride 1 or 2, a threshold of 1.0 (the default) or 1.5 m/s (main.js),
\* overlap avoidance on or off.
GlyphOptions ==
    { [ DefaultOptions EXCEPT !.stride = sd, !.speedThreshold = th,
                              !.jitter = 350, !.avoidHitboxOverlap = av ] :
        sd \in {1, 2}, th \in {1 * WindUnit, (3 * WindUnit) \div 2},
        av \in BOOLEAN }

\* Two streams of Math.random() values, in thousandths.
RandomStreams == { <<500>>, <<0, 999, 250, 730>> }

InitGlyph ==
    /\ data \in GlyphGrids
    /\ opts \in GlyphOptions
    /\ rng \in RandomStreams
    /\ built = FALSE /\ glyphs = <<>>
    /\ candidateWindPoints = <<>> /\ windPoints = <<>>
    /\ prev = NoPrev
    /\ SamplerIdle
    /\ DensifyIdle
    /\ StreamIdle
    /\ UiIdle
    /\ PercentileIdle
    /\ RestIdle

Build ==
    /\ ~built
    /\ built' = TRUE
    /\ glyphs' = BuildField.glyphs
    /\ candidateWindPoints' = BuildField.candidates
    /\ windPoints' = BuildField.windPoints
    /\ UNCHANGED <<data, opts, rng, samplerVars, densifyVars, streamVars, st, main, prev, pRun, restVars>>

\* init() of a second component created from the same grid and options (as
\* setWindLevel does for a level requested again), Math.random() returning
\* r; prev keeps what the build before it produced.
Rebuild(r) ==
    /\ built /\ ~prev.built
    /\ prev' = [ built |-> TRUE, rng |-> rng, glyphs |-> glyphs,
                 windPoints |-> windPoints ]
    /\ rng' = r
    /\ glyphs' = BuildFieldOf(data, opts, r).glyphs
    /\ candidateWindPoints' = BuildFieldOf(data, opts, r).candidates
    /\ windPoints' = BuildFieldOf(data, opts, r).windPoints
    /\ UNCHANGED <<data, opts, built, samplerVars, densifyVars, streamVars,
                   st, main, pRun, restVars>>

NextGlyph == Build \/ \E r \in RandomStreams : Rebuild(r)

SpecGlyph == InitGlyph /\ [][NextGlyph]_vars

----------------------------------------------------------------------------
(* Claims about the glyph field and the pick targets, under SpecGlyph.     *)

\* What the grid stores at the vertex an emitted record names has finite u
\* and v and a speed of at least the threshold, and the record carries them.
EmittedFromFastVertex(r) ==
    LET u == Cell(data.u, r.j, r.i)
        v == Cell(data.v, r.j, r.i)
    IN  /\ IsFinite(u) /\ IsFinite(v)
        /\ r.u = u /\ r.v = v
        /\ r.speed = hypot(u, v)
        /\ r.speed >= opts.speedThreshold

\* C6: every glyph, every pick-target candidate and every retained pick
\* target comes from a grid vertex whose u and v are finite and whose speed
\* is at least speedThreshold; none comes from a vertex with a missing
\* component, whatever the grid and the stride.
C6_EmittedFiniteAndFast ==
    built =>
      /\ \A k \in DOMAIN glyphs : EmittedFromFastVertex(glyphs[k])
      /\ \A k \in DOMAIN candidateWindPoints :
            EmittedFromFastVertex(candidateWindPoints[k])
      /\ \A k \in DOMAIN windPoints : EmittedFromFastVertex(windPoints[k])

\* A build that visited a vertex with a missing component and a vertex
\* slower than the threshold, and still emitted glyphs.
C6_Witness ==
    /\ built /\ Len(glyphs) > 0 /\ Len(candidateWindPoints) > 0
    /\ LET vs == VisitedFrom(data, opts, 0)
       IN  /\ \E k \in DOMAIN vs :
                  ~IsFinite(Cell(data.u, vs[k][1], vs[k][2]))
                    \/ ~IsFinite(Cell(data.v, vs[k][1], vs[k][2]))
           /\ \E k \in DOMAIN vs :
                  LET u == Cell(data.u, vs[k][1], vs[k][2])
                      v == Cell(data.v, vs[k][1], vs[k][2])
                  IN  IsFinite(u) /\ IsFinite(v)
                        /\ hypot(u, v) < opts.speedThreshold

\* C7: with avoidHitboxOverlap, any two distinct retained pick targets are
\* at least 2 * hitboxRadius apart, and the retained targets are exactly the
\* candidates that were, in generation order, not nearer than that to a
\* target placed before them.
C7_PickTargetsSpaced ==
    (built /\ opts.avoidHitboxOverlap) =>
      /\ \A a, b \in DOMAIN windPoints :
            a # b => distanceToSquared(windPoints[a].position,
                                       windPoints[b].position)
                       >= 4 * opts.hitboxRadius * opts.hitboxRadius
      /\ \A c \in DOMAIN candidateWindPoints :
            LET cand == candidateWindPoints[c]
                kept == \E k \in DOMAIN windPoints : windPoints[k] = cand
                near == \E k \in DOMAIN windPoints :
                          /\ windPoints[k] # cand
                          /\ distanceToSquared(windPoints[k].position, cand.position)
                               < 4 * opts.hitboxRadius * opts.hitboxRadius
            IN  ~kept => near

\* A build that retained at least two targets and rejected a candidate.
C7_Witness ==
    /\ built /\ opts.avoidHitboxOverlap
    /\ Len(windPoints) >= 2
    /\ Len(windPoints) < Len(candidateWindPoints)

----------------------------------------------------------------------------
(* Integrator runs: a grid and the options are fixed, then one streamline  *)
(* is generated from a seed.                                               *)

StreamLatAxes ==
    { <<0, 10 * DegUnit, 20 * DegUnit>>,
      <<70 * DegUnit, 80 * DegUnit, 90 * DegUnit>> }
StreamLonAxes ==
    { <<0, 10 * DegUnit, 20 * DegUnit>>,
      <<0 - 180 * DegUnit, 0, 180 * DegUnit>>,
      <<0, 180 * DegUnit, 350 * DegUnit>> }
StreamMissing == { {}, { <<"u", 1, 1>> }, { <<"v", 2, 3>> } }

StreamGrids ==
    { MkGrid(la, lo, k, m) :
        la \in StreamLatAxes, lo \in StreamLonAxes,
        k \in {"uniform", "ramp", "patchy", "calm", "gale", "west", "polar"},
        m \in StreamMissing }

StreamOptions ==
    { [ DefaultOptions EXCEPT !.speedThreshold = th ] :
        th \in {1 * WindUnit, (3 * WindUnit) \div 2} }

SeedLats == Range(data.lat) \cup { data.lat[1] + 5 * DegUnit }
SeedLons == Range(data.lon) \cup { 5 * DegUnit }

InitStream ==
    /\ data \in StreamGrids
    /\ opts \in StreamOptions
    /\ rng = <<500>>
    /\ built = FALSE /\ glyphs = <<>>
    /\ candidateWindPoints = <<>> /\ windPoints = <<>>
    /\ prev = NoPrev
    /\ StreamIdle
    /\ SamplerIdle
    /\ DensifyIdle
    /\ UiIdle
    /\ PercentileIdle
    /\ RestIdle

GenerateStreamline(lat, lon) ==
    /\ ~seed.given
    /\ seed' = [ given |-> TRUE, lat |-> lat, lon |-> lon,
                 globalPts |-> GlobalIntegrate(lat, lon) ]
    /\ slRaw' = Integrate(lat, lon)
    /\ slOut' = generateStreamline(lat, lon)
    /\ UNCHANGED <<data, opts, rng, buildVars, samplerVars, densifyVars, st, main, prev, pRun, restVars>>

NextStream == \E lat \in SeedLats, lon \in SeedLons : GenerateStreamline(lat, lon)

SpecStream == InitStream /\ [][NextStream]_vars

\* The anchors <<lat, lon, position>> of the pick targets wps.
Anchors(wps) ==
    { <<wps[k].lat, wps[k].lon, wps[k].position>> : k \in DOMAIN wps }

\* The anchor of every pick target is the grid vertex it was made from,
\* without jitter.
AnchorsOnGrid ==
    \A k \in DOMAIN windPoints :
        LET wp == windPoints[k]
        IN  /\ wp.lat = data.lat[wp.j] /\ wp.lon = data.lon[wp.i]
            /\ wp.position = latLonToVec3(data.lat[wp.j], data.lon[wp.i])

\* Some vertex the loops visit passes the finiteness and speed tests, has
\* v = 0, and lies so near the north pole that a jittered latitude can be
\* exactly 90: whether `dir.lengthSq() === 0` skips it depends on the draw.
CalmVertexAtNorthPole ==
    LET vs == VisitedFrom(data, opts, 0)
    IN  \E k \in DOMAIN vs :
          LET u == Cell(data.u, vs[k][1], vs[k][2])
              v == Cell(data.v, vs[k][1], vs[k][2])
          IN  /\ ~Skipped(opts, u, v)
              /\ v = 0
              /\ data.lat[vs[k][1]]
                    + (AxisStep(data.lat) * opts.jitter) \div 2000 >= 90 * DegUnit

----------------------------------------------------------------------------
(* Claims about the Streamline Integrator, under SpecStream.               *)

\* The wind sampled at the seed exists and is slower than the threshold.
SeedBelowThreshold ==
    LET w == interpolateWind(seed.lat, seed.lon)
    IN  ~w.isNull /\ hypot(w.u, w.v) < opts.speedThreshold

\* C8: generateStreamline returns null whenever the loop accepted fewer
\* than 2 points, and then neither the tube mesh nor the curve exists; a
\* seed whose sampled speed is below the threshold has no accepted point
\* and gives null.
C8_ShortPathGivesNull ==
    seed.given =>
      /\ Len(slRaw.points) < 2 =>
            (slOut.isNull /\ ~slOut.line /\ ~slOut.curve)
      /\ SeedBelowThreshold =>
            (Len(slRaw.points) = 0 /\ slOut.isNull /\ ~slOut.line /\ ~slOut.curve)

\* Scenario C: a streamline was requested at a seed slower than the
\* threshold.
C8_Witness == seed.given /\ SeedBelowThreshold /\ slOut.isNull

\* The sample at pos = <<lat, lon>> is one the loop accepts: it exists and
\* is not slower than the threshold.
Accepted(pos) ==
    LET w == interpolateWind(pos[1], pos[2])
    IN  ~w.isNull /\ hypot(w.u, w.v) >= opts.speedThreshold

\* The position the loop moves to from pos, before the longitude wrap.
Stepped(pos) ==
    LET w == interpolateWind(pos[1], pos[2])
    IN  << pos[1] + StepDelta(w.v), pos[2] + StepDelta(w.u) >>

LatInRange(pos) == 0 - 90 * DegUnit <= pos[1] /\ pos[1] <= 90 * DegUnit

\* C17: the raw path starts at the seed, every point of it has an accepted
\* sample and is followed by the Euler step from it, and the path ends
\* only at the segment limit, where the step leaves the latitude range, or
\* in front of the first position whose sample is missing or too slow; the
\* points before that position are kept, and the streamline is returned
\* if they are at least 2.
C17_PathStopsAtFirstRejected ==
    seed.given =>
      LET P == slRaw.points
          n == Len(P)
      IN  /\ n <= opts.streamlineSegments
          /\ Len(slRaw.speeds) = n
          /\ n >= 1 => P[1].a = <<seed.lat, seed.lon>>
          /\ \A k \in 1..n : Accepted(P[k].a) /\ LatInRange(P[k].a)
          /\ \A k \in 1..(n - 1) :
                P[k + 1].a = << Stepped(P[k].a)[1], WrapLon(Stepped(P[k].a)[2]) >>
          /\ n = 0 => ~Accepted(<<seed.lat, seed.lon>>)
          /\ (n >= 1 /\ n < opts.streamlineSegments) =>
                \/ ~LatInRange(Stepped(P[n].a))
                \/ ~Accepted(<< Stepped(P[n].a)[1], WrapLon(Stepped(P[n].a)[2]) >>)
          /\ n >= 2 => ~slOut.isNull

\* A path of at least 2 points that ended in front of a missing sample, and
\* was returned.
C17_Witness ==
    /\ seed.given
    /\ Len(slRaw.points) >= 2
    /\ Len(slRaw.points) < opts.streamlineSegments
    /\ LET last == slRaw.points[Len(slRaw.points)].a
       IN  /\ LatInRange(Stepped(last))
           /\ interpolateWind(Stepped(last)[1], WrapLon(Stepped(last)[2])).isNull
    /\ ~slOut.isNull

LonInRange(lon) == 0 - 180 * DegUnit <= lon /\ lon <= 180 * DegUnit

\* C18: every position the loop moves on to (the step stayed within the
\* latitude range) has, after the wrap by 360 degrees, a longitude within
\* [-180, 180]: the points of the path after the seed, and the position
\* sampled after the last of them.
C18_WrappedLonInRange ==
    seed.given =>
      LET P == slRaw.points
          n == Len(P)
      IN  /\ \A k \in 2..n : LonInRange(P[k].a[2])
          /\ \A k \in 1..n :
                LatInRange(Stepped(P[k].a)) =>
                  LonInRange(WrapLon(Stepped(P[k].a)[2]))

\* A step left [-180, 180] and the path went on from the wrapped longitude.
C18_Witness ==
    /\ seed.given
    /\ \E k \in 1..(Len(slRaw.points) - 1) :
          /\ ~LonInRange(Stepped(slRaw.points[k].a)[2])
          /\ LonInRange(slRaw.points[k + 1].a[2])

\* The (lat, lon) of the points pts, the longitude wrapped to [-180, 180].
WrappedLatLon(pts) ==
    [ k \in DOMAIN pts |-> << pts[k].a[1], wrapLon180(pts[k].a[2]) >> ]

\* C22: from the same seed on the same grid, with equal step count and
\* minimum speed, generateStreamline and the global build accept the same
\* sequence of (latitude, wrapped longitude) points.
C22_SamePathAsGlobal ==
    seed.given => WrappedLatLon(slRaw.points) = WrappedLatLon(seed.globalPts)

----------------------------------------------------------------------------
(* Selection runs: main.js loads a wind level and installs the component   *)
(* built from its grid (RequestLevel, LevelLoaded, LevelLoadFailed); st is  *)
(* the state of the registered component.  The leaf model loads or fails   *)
(* to, the user clicks the canvas and the close button, frames tick, the   *)
(* level is switched, and main.js removes the component.                   *)

MaxAnimTime == 4

UiGrids ==
    { MkGrid(<<0, 5 * DegUnit, 10 * DegUnit>>,
             <<0, 5 * DegUnit, 10 * DegUnit, 15 * DegUnit>>, k, m) :
        k \in {"uniform", "gale"}, m \in {{}, {<<"v", 2, 3>>}} }

\* Stride 2 on the 3 x 4 grid, thresholds as in GlyphOptions.
UiOptions == { [ o EXCEPT !.stride = 2 ] : o \in StreamOptions }

\* No grid yet: the first level has not loaded.
NoGrid == [ lat |-> <<>>, lon |-> <<>>, u |-> <<>>, v |-> <<>> ]

InitUi ==
    /\ data = NoGrid
    /\ opts \in UiOptions
    /\ rng = <<500>>
    /\ built = FALSE /\ glyphs = <<>>
    /\ candidateWindPoints = <<>> /\ windPoints = <<>>
    /\ prev = NoPrev
    /\ st = InitialState
    /\ main = MainIdle
    /\ SamplerIdle
    /\ DensifyIdle
    /\ StreamIdle
    /\ PercentileIdle
    /\ RestIdle

uiFrame == <<data, opts, rng, built, glyphs, candidateWindPoints,
             samplerVars, densifyVars, streamVars, prev, pRun, restVars>>

\* The success callback of loader.load(leafModelPath, ...).
LeafLoaded ==
    /\ built
    /\ st.leafLoad = "pending"
    /\ st' = [ Enter(st, "leaf_loaded", 0) EXCEPT !.leafLoad = "loaded",
                                                   !.leafModel = TRUE ]
    /\ UNCHANGED <<uiFrame, windPoints, main>>

\* The error callback of loader.load(leafModelPath, ...).
LeafLoadFailed ==
    /\ built
    /\ st.leafLoad = "pending"
    /\ st' = [ Enter(st, "leaf_failed", 0) EXCEPT !.leafLoad = "failed" ]
    /\ UNCHANGED <<uiFrame, windPoints, main>>

\* A click on the canvas whose ray hits the hitbox of windPoints[k] first,
\* or no hitbox (k = 0).  st.picked remembers the pick target the user
\* chose last and has not deselected since.
CanvasClick(k) ==
    /\ built
    /\ st.clickListener
    /\ st.nextId + 1 <= MaxObjects
    /\ st' = [ onCanvasClick(st, k) EXCEPT
                 !.picked = IF st.leafModel THEN k ELSE @ ]
    /\ UNCHANGED <<uiFrame, windPoints, main>>

\* A click on #wind-info-close.
CloseClick ==
    /\ built
    /\ st.closeListener
    /\ st' = [ onCloseClick(st) EXCEPT !.picked = 0 ]
    /\ UNCHANGED <<uiFrame, windPoints, main>>

\* A frame of main.js's animate(): update(dt) of the registered component.
Update(dt) ==
    /\ main.registered
    /\ st.leafAnimTime + dt <= MaxAnimTime
    /\ st' = update(st, dt)
    /\ UNCHANGED <<uiFrame, windPoints, main>>

\* removeComponent('interactiveWind') of main.js: inst.dispose(), then
\* components.delete(id) unless dispose threw.
Dispose ==
    /\ main.registered
    /\ st' = [ dispose(st) EXCEPT !.picked = 0 ]
    /\ windPoints' = IF dispose(st).windPointsCleared THEN <<>> ELSE windPoints
    /\ main' = [ main EXCEPT !.registered = dispose(st).thrown ]
    /\ UNCHANGED uiFrame

RECURSIVE InFlightUpTo(_)
InFlightUpTo(l) ==
    IF l < 0 THEN 0 ELSE main.inflight[l] + InFlightUpTo(l - 1)

\* The number of setWindLevel calls waiting at their await.
InFlight == InFlightUpTo(MaxLevel)

\* setWindLevel(l) up to `await loadWindLevel(level)`: called by the level
\* control's onLevelChange and by the initial load.
RequestLevel(l) ==
    /\ InFlight < MaxLoads
    /\ main' = [ main EXCEPT !.currentWindLevel = l,
                             !.controlDisabled = TRUE,
                             !.status = "Loading",
                             !.inflight[l] = @ + 1 ]
    /\ st' = Enter(st, "request", 0)
    /\ UNCHANGED <<uiFrame, windPoints>>

\* The component addComponent('interactiveWind', ...) creates and
\* initialises after the one in state s was removed: fresh closure
\* variables; the globe's autoRotate, the panel and the object ids live on.
FreshComponent(s) ==
    [ InitialState EXCEPT !.autoRotate = s.autoRotate,
                          !.panelVisible = s.panelVisible,
                          !.panelShows = s.panelShows,
                          !.disposals = s.disposals,
                          !.nextId = s.nextId,
                          !.lastOp = "switch" ]

\* setWindLevel(l) from the await on, loadWindLevel(l) having returned the
\* grid d: removeComponent('interactiveWind'), addComponent(...) with its
\* init(), status ''; a throw on the way goes to the catch (status
\* 'Failed...'); finally the control is enabled.
LevelLoaded(l, d) ==
    /\ main.inflight[l] > 0
    /\ LET old == IF main.registered
                  THEN [ dispose(st) EXCEPT !.lastOp = "switch", !.picked = 0 ]
                  ELSE Enter(st, "switch", 0)
       IN  IF old.thrown
           THEN /\ st' = old
                /\ main' = [ main EXCEPT !.inflight[l] = @ - 1,
                                         !.status = "Failed",
                                         !.controlDisabled = FALSE,
                                         !.settled = l ]
                /\ UNCHANGED <<data, buildVars>>
           ELSE /\ st' = FreshComponent(old)
                /\ main' = [ main EXCEPT !.inflight[l] = @ - 1,
                                         !.registered = TRUE,
                                         !.installedLevel = l,
                                         !.status = "",
                                         !.controlDisabled = FALSE,
                                         !.settled = l ]
                /\ data' = d
                /\ built' = TRUE
                /\ glyphs' = BuildFieldOf(d, opts, rng).glyphs
                /\ candidateWindPoints' = BuildFieldOf(d, opts, rng).candidates
                /\ windPoints' = BuildFieldOf(d, opts, rng).windPoints
    /\ UNCHANGED <<opts, rng, samplerVars, densifyVars, streamVars, prev, pRun, restVars>>

\* setWindLevel(l) from the await on, loadWindLevel(l) having thrown.
LevelLoadFailed(l) ==
    /\ main.inflight[l] > 0
    /\ main' = [ main EXCEPT !.inflight[l] = @ - 1,
                             !.status = "Failed",
                             !.controlDisabled = FALSE,
                             !.settled = l ]
    /\ st' = Enter(st, "load_failed", 0)
    /\ UNCHANGED <<uiFrame, windPoints>>

NextUi ==
    \/ \E l \in Levels : RequestLevel(l)
    \/ \E l \in Levels, d \in UiGrids : LevelLoaded(l, d)
    \/ \E l \in Levels : LevelLoadFailed(l)
    \/ LeafLoaded
    \/ LeafLoadFailed
    \/ \E k \in 0..Len(windPoints) : CanvasClick(k)
    \/ CloseClick
    \/ Update(1)
    \/ Dispose

SpecUi == InitUi /\ [][NextUi]_vars

----------------------------------------------------------------------------
(* Claims about canvas clicks, under SpecUi.                               *)

\* C9, in the case most favourable to it (the leaf model has loaded): after
\* a canvas click whose ray intersects no pick target, no particle,
\* streamline or curve is active, the null notification has been
\* dispatched, and the globe's autorotation is on.
C9_EmptyClickClears ==
    (st.lastOp = "click" /\ st.target = 0 /\ st.leafModel) =>
      /\ st.selectedLeaf = 0 /\ st.selectedStreamline = 0
      /\ ~st.streamlineCurve
      /\ \E k \in DOMAIN st.emitted : st.emitted[k] = NullDetail
      /\ st.autoRotate

\* C10: a canvas click while the leaf model is not loaded changes nothing:
\* the particle, the streamline, the curve, the animation clock, the
\* autorotation flag and the info panel are as before, and the click
\* dispatches no notification.
C10_ClickBeforeLoadIgnored ==
    [][ (st'.lastOp = "click" /\ ~st.leafModel) =>
          /\ st'.selectedLeaf = st.selectedLeaf
          /\ st'.selectedStreamline = st.selectedStreamline
          /\ st'.streamlineCurve = st.streamlineCurve
          /\ st'.streamlinePoints = st.streamlinePoints
          /\ st'.leafAnimTime = st.leafAnimTime
          /\ st'.leafWindData = st.leafWindData
          /\ st'.autoRotate = st.autoRotate
          /\ st'.panelVisible = st.panelVisible
          /\ st'.panelShows = st.panelShows
          /\ st'.leafGroup = st.leafGroup
          /\ st'.disposals = st.disposals
          /\ st'.emitted = <<>>
          /\ ~st'.thrown ]_vars

\* A click on a pick target arrived while the leaf model was not loaded
\* (the model never unloads, so it was not loaded when the click ran).
C10_Witness ==
    st.lastOp = "click" /\ st.target > 0 /\ ~st.leafModel /\ st.autoRotate

----------------------------------------------------------------------------
(* Percentile runs: percentile(arr, p) is called once on an array.         *)

MaxValues == 3

\* Finite numbers, negative ones and equal ones included.
PercentileValues == { 0 - 7, 0, 3, 12 }

PercentileArrays ==
    UNION { [ 1..n -> PercentileValues ] : n \in 0..MaxValues }

PercentileRanks == { 0, 10, 50, 90, 100 }

InitPercentile ==
    /\ data = NoGrid
    /\ BuildIdle
    /\ SamplerIdle
    /\ DensifyIdle
    /\ StreamIdle
    /\ UiIdle
    /\ RestIdle
    /\ pRun \in { [ NoPercentile EXCEPT !.arr = a, !.p = r ] :
                     a \in PercentileArrays, r \in PercentileRanks }

\* percentile(arr, p): the value returned, and the caller's array after the
\* call; the sort is applied to the copy [...arr], so arr is as it was.
Percentile ==
    /\ ~pRun.done
    /\ pRun' = [ pRun EXCEPT !.done = TRUE,
                             !.value = percentile(pRun.arr, pRun.p),
                             !.arrAfter = pRun.arr ]
    /\ UNCHANGED <<data, opts, rng, buildVars, samplerVars, densifyVars,
                   streamVars, st, main, prev, restVars>>

NextPercentile == Percentile

SpecPercentile == InitPercentile /\ [][NextPercentile]_vars

\* C19: on a non-empty array of finite values, percentile(values, 0) is
\* the minimum and percentile(values, 100) the maximum, every percentile is
\* an element of the array, and the array is as it was before the call.
C19_PercentileEnds ==
    (pRun.done /\ Len(pRun.arr) > 0) =>
      /\ \E k \in DOMAIN pRun.arr : pRun.value = pRun.arr[k]
      /\ pRun.p = 0 => \A k \in DOMAIN pRun.arr : pRun.value <= pRun.arr[k]
      /\ pRun.p = 100 => \A k \in DOMAIN pRun.arr : pRun.value >= pRun.arr[k]
      /\ pRun.arrAfter = pRun.arr

\* The maximum was asked of an array that is not in ascending order and
\* whose largest element is not the last one.
C19_Witness ==
    /\ pRun.done /\ pRun.p = 100
    /\ Len(pRun.arr) = MaxValues
    /\ pRun.arr[1] > pRun.arr[2] /\ pRun.arr[1] > pRun.arr[MaxValues]
    /\ pRun.value = pRun.arr[1]

----------------------------------------------------------------------------
(* Claims about the selection life cycle, under SpecUi.                    *)

C13_IdleAutoRotates ==
    st.selectedLeaf = 0 => st.autoRotate

\* C14: while a glyph is picked and not deselected, the pick itself and
\* every per-frame update after it dispatch a notification with a non-null
\* detail.
C14_LocationEmittedWhileSelected ==
    (st.picked # 0 /\ st.lastOp \in {"click", "update"}) =>
      \E k \in DOMAIN st.emitted : ~st.emitted[k].isNull

\* The streamline generateStreamline builds for the pick target picked last.
PickedStreamline ==
    generateStreamline(windPoints[st.picked].lat, windPoints[st.picked].lon)

\* C15: a per-frame update while a glyph with a streamline is picked runs
\* to its end, has the particle at the normalized time t on the path, and
\* has recorded a current location for the notification.
C15_UpdateReportsPathLocation ==
    (st.picked # 0 /\ st.lastOp = "update" /\ ~PickedStreamline.isNull) =>
      /\ ~st.thrown
      /\ st.leafOnCurve
      /\ st.passportState.active

\* C16: after a pick whose streamline build returns null, the info panel
\* shows the picked glyph and the leaf group holds no streamline.
C16_NullPathKeepsPanel ==
    (st.lastOp = "click" /\ st.target > 0 /\ st.leafModel
       /\ PickedStreamline.isNull) =>
      /\ st.panelVisible /\ st.panelShows = st.target
      /\ st.selectedStreamline \notin st.leafGroup

----------------------------------------------------------------------------
(* Registry runs: main.js's components Map under addComponent and          *)
(* removeComponent calls.                                                  *)

MaxInstances == 3
MaxDisposeCalls == 2

\* Ids main.js registers and removes at run time.
ComponentIds == { "interactiveWind", "globalWindStreamlines", "windLegend" }

\* inst.dispose() throws: interactiveWind's dispose() does, at hideWindInfo().
DisposeThrows(id) == id = "interactiveWind" /\ dispose(InitialState).thrown

\* const components = new Map(), and per instance created so far the id it
\* was created for and the calls of its init() and dispose().
InitRegistry ==
    /\ data = NoGrid
    /\ BuildIdle
    /\ SamplerIdle
    /\ DensifyIdle
    /\ StreamIdle
    /\ UiIdle
    /\ PercentileIdle
    /\ client = NoClient /\ wv = NoWindVectors
    /\ reg = [ on |-> TRUE,
               components |-> [ id \in ComponentIds |-> 0 ],
               idOf |-> <<>>, inits |-> <<>>, disposes |-> <<>>,
               lastCall |-> "none", lastId |-> "none" ]

\* addComponent(id, factory, ...)
AddComponent(id) ==
    /\ reg.on
    /\ IF reg.components[id] # 0
       THEN reg' = [ reg EXCEPT !.lastCall = "add_skipped", !.lastId = id ]
       ELSE /\ Len(reg.idOf) < MaxInstances
            /\ reg' = [ reg EXCEPT
                          !.components[id] = Len(reg.idOf) + 1,
                          !.idOf = Append(@, id),
                          !.inits = Append(@, 1),
                          !.disposes = Append(@, 0),
                          !.lastCall = "add", !.lastId = id ]
    /\ UNCHANGED <<data, opts, rng, buildVars, samplerVars, densifyVars,
                   streamVars, st, main, prev, pRun, client, wv>>

\* removeComponent(id): inst.dispose() if there is one, then
\* components.delete(id) unless dispose threw.
RemoveComponent(id) ==
    /\ reg.on
    /\ LET inst == reg.components[id]
       IN  IF inst = 0
           THEN reg' = [ reg EXCEPT !.lastCall = "remove_absent", !.lastId = id ]
           ELSE /\ reg.disposes[inst] < MaxDisposeCalls
                /\ reg' = [ reg EXCEPT
                              !.disposes[inst] = @ + 1,
                              !.components[id] =
                                  IF DisposeThrows(id) THEN @ ELSE 0,
                              !.lastCall = IF DisposeThrows(id)
                                           THEN "remove_threw" ELSE "remove",
                              !.lastId = id ]
    /\ UNCHANGED <<data, opts, rng, buildVars, samplerVars, densifyVars,
                   streamVars, st, main, prev, pRun, client, wv>>

NextRegistry ==
    \E id \in ComponentIds : AddComponent(id) \/ RemoveComponent(id)

SpecRegistry == InitRegistry /\ [][NextRegistry]_vars

\* C21: every id is registered for at most one instance, and every
\* instance created has had init() called exactly once and dispose() at
\* most once.
C21_InitOnceDisposeAtMostOnce ==
    reg.on =>
      /\ \A a, b \in ComponentIds :
            (reg.components[a] # 0 /\ reg.components[a] = reg.components[b])
              => a = b
      /\ \A k \in DOMAIN reg.idOf :
            reg.inits[k] = 1 /\ reg.disposes[k] <= 1

----------------------------------------------------------------------------
(* Claims about overlapping level loads, under SpecUi.                     *)

\* C23: once every setWindLevel call has completed, the last of them having
\* received the data of currentWindLevel from loadWindLevel, the registered
\* interactiveWind component is the one built from the data of
\* currentWindLevel.
C23_InstalledIsLatestRequest ==
    ( /\ InFlight = 0
      /\ main.registered
      /\ st.lastOp = "switch"
      /\ main.settled = main.currentWindLevel ) =>
      main.installedLevel = main.currentWindLevel

\* C27: the level control is disabled while any setWindLevel call is
\* waiting for its level, and enabled when none is.
C27_DisabledWhileLoading ==
    (InFlight > 0 <=> main.controlDisabled)

\* No handler gets as far as creating a particle or a streamline mesh:
\* every pick ends at stopPassportTracking(), before generateStreamline.
NoMeshEverCreated ==
    st.nextId = 1 /\ st.selectedLeaf = 0 /\ st.selectedStreamline = 0
      /\ st.leafGroup = {}

\* No handler dispatches a `wind:select` event, and passportState never
\* holds a tracking record: each path to dispatchPassportEvent first
\* assigns or reads the undeclared passportState.
NoNotificationEverEmitted ==
    st.emitted = <<>> /\ st.passportState = NoPassport

----------------------------------------------------------------------------
(* StreamClient.getTile: the tile cache with expiry and the map of fetches *)
(* in flight.  A call runs without interruption up to its `await p`; the   *)
(* fetch settles later, and the caller's finally runs with it.             *)

MaxFetches == 2
MaxCalls == 3
MaxClock == 2

\* Milliseconds are counted in units of five minutes.
CacheExpiry == 2

\* Times in tenths of a frame, tile columns, and the keys they give.
TimeUnit == 10
TileTimes == { 0 - 5, 5, 15 }
TileColumns == { 0 }

\* const t = Math.max(0, Math.floor(Number(time))); key = `${t}:${z}:${x}:${y}`
TileKey(time, z, x, y) == << Max2(0, time \div TimeUnit), z, x, y >>

TileKeys == { TileKey(time, 0, x, 0) : time \in TileTimes, x \in TileColumns }

NoEntry == [ has |-> FALSE, tile |-> 0, timestamp |-> 0 ]

\* new StreamClient(): empty _cache and _inFlight; promises are the fetch
\* promises created so far, calls the getTile calls made so far.
InitClient ==
    /\ data = NoGrid
    /\ BuildIdle
    /\ SamplerIdle
    /\ DensifyIdle
    /\ StreamIdle
    /\ UiIdle
    /\ PercentileIdle
    /\ reg = NoRegistry /\ wv = NoWindVectors
    /\ client = [ on |-> TRUE,
                  now |-> 0,
                  cache |-> [ k \in TileKeys |-> NoEntry ],
                  inFlight |-> [ k \in TileKeys |-> 0 ],
                  promises |-> <<>>,
                  calls |-> <<>> ]

clientFrame == <<data, opts, rng, buildVars, samplerVars, densifyVars,
                 streamVars, st, main, prev, pRun, reg, wv>>

\* cached && Date.now() - cached.timestamp < this._cacheExpiry
CacheFresh(c, key) ==
    c.cache[key].has /\ c.now - c.cache[key].timestamp < CacheExpiry

\* A variant that never finds a fetch in flight.
InFlightHasNever(c, key) == FALSE

\* this._inFlight.has(key)
InFlightHas(c, key) == c.inFlight[key] # 0

\* getTile(time, z, x, y) up to its return or its `await p`.
GetTile(time, x) ==
    /\ client.on
    /\ Len(client.calls) < MaxCalls
    /\ LET key == TileKey(time, 0, x, 0)
           c == IF client.cache[key].has /\ ~CacheFresh(client, key)
                THEN [ client EXCEPT !.cache[key] = NoEntry ]
                ELSE client
           new == Len(client.promises) + 1
       IN  IF CacheFresh(client, key)
           THEN client' = [ client EXCEPT !.calls = Append(@,
                              [ key |-> key, path |-> "cached", promise |-> 0,
                                result |-> client.cache[key].tile ]) ]
           ELSE IF InFlightHas(c, key)
           THEN client' = [ c EXCEPT !.calls = Append(@,
                              [ key |-> key, path |-> "joined",
                                promise |-> c.inFlight[key], result |-> 0 ]) ]
           ELSE /\ new <= MaxFetches
                /\ client' = [ c EXCEPT
                                 !.promises = Append(@,
                                     [ key |-> key, state |-> "pending" ]),
                                 !.inFlight[key] = new,
                                 !.calls = Append(@,
                                     [ key |-> key, path |-> "fetched",
                                       promise |-> new, result |-> 0 ]) ]
    /\ UNCHANGED clientFrame

\* What the callers waiting for promise p receive: the tile (the number of
\* the fetch that built it) or the error (its negative).
Deliver(calls, p, outcome) ==
    [ k \in DOMAIN calls |->
        IF calls[k].promise = p THEN [ calls[k] EXCEPT !.result = outcome ]
        ELSE calls[k] ]

\* The fetch of promise p succeeds: the tile is stored with the time, the
\* promise resolves, and the first caller's finally deletes the key.
FetchOk(p) ==
    /\ client.on
    /\ p \in DOMAIN client.promises
    /\ client.promises[p].state = "pending"
    /\ LET key == client.promises[p].key
       IN  client' = [ client EXCEPT
                         !.promises[p].state = "ok",
                         !.cache[key] = [ has |-> TRUE, tile |-> p,
                                          timestamp |-> client.now ],
                         !.inFlight[key] = 0,
                         !.calls = Deliver(@, p, p) ]
    /\ UNCHANGED clientFrame

\* The fetch of promise p throws: the promise rejects, and the first
\* caller's finally deletes the key.
FetchFail(p) ==
    /\ client.on
    /\ p \in DOMAIN client.promises
    /\ client.promises[p].state = "pending"
    /\ LET key == client.promises[p].key
       IN  client' = [ client EXCEPT
                         !.promises[p].state = "failed",
                         !.inFlight[key] = 0,
                         !.calls = Deliver(@, p, 0 - p) ]
    /\ UNCHANGED clientFrame

\* Five minutes pass.
Tick ==
    /\ client.on
    /\ client.now < MaxClock
    /\ client' = [ client EXCEPT !.now = @ + 1 ]
    /\ UNCHANGED clientFrame

NextClient ==
    \/ \E time \in TileTimes, x \in TileColumns : GetTile(time, x)
    \/ \E p \in 1..MaxFetches : FetchOk(p)
    \/ \E p \in 1..MaxFetches : FetchFail(p)
    \/ Tick

SpecClient == InitClient /\ [][NextClient]_vars

\* The fetches of key k that have not settled.
PendingFor(k) ==
    { p \in DOMAIN client.promises :
        client.promises[p].key = k /\ client.promises[p].state = "pending" }

\* C24: per key at most one fetch is in flight; the callers that arrived
\* while it was in flight hold its promise and receive what its first caller
\* receives; a cached tile comes from a fetch that succeeded, never from a
\* failed one; and a key is in the in-flight map exactly while its fetch has
\* not settled.
C24_OneFetchPerKey ==
    client.on =>
      /\ \A k \in TileKeys : Cardinality(PendingFor(k)) <= 1
      /\ \A i, j \in DOMAIN client.calls :
            ( /\ client.calls[i].key = client.calls[j].key
              /\ client.calls[i].path = "fetched"
              /\ client.calls[j].path = "joined"
              /\ i < j
              /\ \A m \in (i + 1)..j : client.calls[m].path # "fetched"
                                       \/ client.calls[m].key # client.calls[i].key ) =>
              /\ client.calls[j].promise = client.calls[i].promise
              /\ client.calls[j].result = client.calls[i].result
      /\ \A k \in TileKeys :
            client.cache[k].has =>
              /\ client.cache[k].tile \in DOMAIN client.promises
              /\ client.promises[client.cache[k].tile].state = "ok"
              /\ client.promises[client.cache[k].tile].key = k
      /\ \A k \in TileKeys :
            /\ client.inFlight[k] # 0 => client.inFlight[k] \in PendingFor(k)
            /\ PendingFor(k) # {} => client.inFlight[k] \in PendingFor(k)

\* A call joined a fetch in flight, the fetch failed, nothing was cached,
\* and a later call fetched the same key again.
C24_Witness ==
    /\ client.on
    /\ \E i, j, m \in DOMAIN client.calls :
          /\ i < j /\ j < m
          /\ client.calls[i].path = "fetched"
          /\ client.calls[j].path = "joined"
          /\ client.calls[m].path = "fetched"
          /\ client.calls[j].promise = client.calls[i].promise
          /\ client.calls[j].result < 0
          /\ client.calls[m].key = client.calls[i].key
          /\ client.calls[m].result > 0

----------------------------------------------------------------------------
(* The streaming wind-vector component: animate() calls                    *)
(* update(playbackTime, null) every frame; an update runs up to its        *)
(* `await client.getFrame(...)` and resumes when the fetch settles.         *)

MaxFrames == 2
MaxUpdates == 3

\* let latestFrame = null
NoFrame == 0 - 1

\* What client.getFrame resolves with: no tiles, tiles without data, or
\* tiles with data.
FrameTiles == { "none", "blank", "data" }

\* createWindVectors(...) and init(); playbackTime = 0 in tenths of a
\* second.  running and fetches count the updates between await and finally
\* and the getFrame calls; fetching is the frame const of the running
\* update; rendered the frames whose vectors were put into the geometry.
InitWind ==
    /\ data = NoGrid
    /\ BuildIdle
    /\ SamplerIdle
    /\ DensifyIdle
    /\ StreamIdle
    /\ UiIdle
    /\ PercentileIdle
    /\ reg = NoRegistry /\ client = NoClient
    /\ wv = [ on |-> TRUE,
              playbackTime |-> 0,
              latestFrame |-> NoFrame,
              latestTime |-> NoFrame,
              updateInProgress |-> FALSE,
              running |-> 0,
              fetching |-> {},
              fetches |-> 0,
              rendered |-> {},
              lastOp |-> "init" ]

windFrame == <<data, opts, rng, buildVars, samplerVars, densifyVars,
               streamVars, st, main, prev, pRun, reg, client>>

\* A variant of the guard that never sees an update running.
InProgressNever(w) == FALSE

\* if (updateInProgress) return;
InProgress(w) == w.updateInProgress

\* update(currentTime, visibleBounds) up to its return or its await;
\* given = FALSE is a call without a time.
update_wv(w, given, currentTime) ==
    LET frame == currentTime \div TimeUnit
    IN  IF ~given THEN [ w EXCEPT !.lastOp = "update_null" ]
        ELSE IF frame = w.latestFrame THEN [ w EXCEPT !.lastOp = "update_same" ]
        ELSE IF InProgress(w) THEN [ w EXCEPT !.lastOp = "update_busy" ]
        ELSE [ w EXCEPT !.updateInProgress = TRUE,
                        !.latestFrame = frame,
                        !.latestTime = currentTime,
                        !.running = @ + 1,
                        !.fetching = @ \cup { frame },
                        !.fetches = @ + 1,
                        !.lastOp = "update_fetch" ]

\* animate(): playbackTime += dt while playing, then update(playbackTime).
Animate(dt) ==
    /\ wv.on
    /\ wv.playbackTime + dt <= MaxFrames * TimeUnit
    /\ wv.fetches < MaxUpdates
    /\ wv' = update_wv([ wv EXCEPT !.playbackTime = @ + dt ], TRUE,
                       wv.playbackTime + dt)
    /\ UNCHANGED windFrame

\* update() without a time.
UpdateNoTime ==
    /\ wv.on
    /\ wv' = update_wv(wv, FALSE, 0)
    /\ UNCHANGED windFrame

\* getFrame resolved for the update of frame f: the tiles are processed and
\* the geometry replaced; a tile with data reaches the statement `s` after
\* `const speeds = [];`, which throws a ReferenceError into the catch.
\* finally clears the flag.
FrameFetched(f, tiles) ==
    /\ wv.on
    /\ f \in wv.fetching
    /\ wv' = [ wv EXCEPT !.rendered = IF tiles = "data" THEN @ ELSE @ \cup { f },
                         !.updateInProgress = FALSE,
                         !.running = @ - 1,
                         !.fetching = @ \ { f },
                         !.lastOp = IF tiles = "data" THEN "threw"
                                    ELSE "rendered" ]
    /\ UNCHANGED windFrame

\* getFrame rejected for the update of frame f: catch, then finally.
FrameFailed(f) ==
    /\ wv.on
    /\ f \in wv.fetching
    /\ wv' = [ wv EXCEPT !.updateInProgress = FALSE,
                         !.running = @ - 1,
                         !.fetching = @ \ { f },
                         !.lastOp = "failed" ]
    /\ UNCHANGED windFrame

NextWind ==
    \/ \E dt \in { 0, 5 } : Animate(dt)
    \/ UpdateNoTime
    \/ \E f \in 0..MaxFrames, tiles \in FrameTiles : FrameFetched(f, tiles)
    \/ \E f \in 0..MaxFrames : FrameFailed(f)

SpecWind == InitWind /\ [][NextWind]_vars

\* C25: at most one update is between its await and its finally, and the
\* in-progress flag is set exactly then; an update called while the flag is
\* set starts no fetch; when an update finishes, by rendering, by a throw
\* or by a failed fetch, the flag is clear.
C25_OneUpdateAtATime ==
    [][ /\ wv'.running <= 1
        /\ wv'.updateInProgress <=> wv'.running = 1
        /\ (wv.updateInProgress /\ wv'.lastOp \in
              { "update_null", "update_same", "update_busy", "update_fetch" }) =>
              wv'.fetches = wv.fetches /\ wv'.fetching = wv.fetching
        /\ wv'.lastOp \in { "rendered", "threw", "failed" } =>
              ~wv'.updateInProgress ]_vars

\* An update for a new frame has just been skipped because another is
\* running, after an earlier update had finished and cleared the flag.
C25_Witness ==
    /\ wv.on
    /\ wv.lastOp = "update_busy"
    /\ wv.updateInProgress
    /\ wv.latestFrame # wv.playbackTime \div TimeUnit
    /\ wv.rendered # {}

\* C26, first half, at rest: when no update is running, latestFrame is a
\* frame whose vectors were put into the geometry.
C26_LatestFrameWasRendered ==
    (wv.on /\ ~wv.updateInProgress /\ wv.latestFrame # NoFrame) =>
      wv.latestFrame \in wv.rendered

====
